---------------------------- MODULE Spec2Model ----------------------------
(***************************************************************************)
(* Model of the FSFFB X-Plane plugin (src/xplane-plugin/FSFFB-XPP.cpp):    *)
(* the frame-tick context (MyFlightLoopCallback) and the receive context   *)
(* (ReceiveThread) sharing the axis map, the override flags and the        *)
(* subscription registry.                                                  *)
(*                                                                         *)
(* Text is modelled as sequences of one-character strings, so that the     *)
(* splitting and number parsing of the code is computed, not assumed.      *)
(* Floats are fixed-point integers in thousandths (0.5 is 500).            *)
(***************************************************************************)
EXTENDS Integers, Sequences, FiniteSets, TLC

(***************************************************************************)
(* Bounds of the model.                                                    *)
(***************************************************************************)
\* Largest number of entries the registry is allowed to grow to.
MaxSubs == 2

\* The longest simulator array given to FloatArrayToString.
MaxArr == 3

\* GetNumGear: int size = 10.
GearTableSize == 10

\* The leading slots of the gear tables that may hold a non-zero coordinate.
MaxGearSlots == 3

(***************************************************************************)
(* Program constants.                                                      *)
(***************************************************************************)
\* char buffer[1024] in ReceiveData.
BufSize == 1024
\* Default precision of RegisterDataRef / SUBSCRIBE.
DefaultPrecision == 3
\* Default conversion factor 1.0 (in thousandths).
DefaultConversion == 1000

\* const float kt_2_mps = 0.51444f, in thousandths.
Kt2Mps == 514
\* Thousandths per unit: the fixed-point scale of the model's floats.
Milli == 1000

(***************************************************************************)
(* Text.                                                                   *)
(***************************************************************************)
Digits == <<"0", "1", "2", "3", "4", "5", "6", "7", "8", "9">>

IsDigit(c) == \E i \in 1..10 : Digits[i] = c

DigitVal(c) == (CHOOSE i \in 1..10 : Digits[i] = c) - 1

IsSpace(c) == c \in {" ", "\t", "\n", "\r"}

\* Index of the first occurrence of ch in s, 0 when there is none.
IndexOf(s, ch) ==
    IF \E i \in 1..Len(s) : s[i] = ch
    THEN CHOOSE i \in 1..Len(s) : s[i] = ch /\ \A j \in 1..(i - 1) : s[j] # ch
    ELSE 0

\* s from index i to its end.
From(s, i) == SubSeq(s, i, Len(s))

\* Length of the longest prefix of s made of digits.
DigitPrefixLen(s) ==
    IF \E i \in 1..Len(s) : ~IsDigit(s[i])
    THEN (CHOOSE i \in 1..Len(s) : ~IsDigit(s[i]) /\ \A j \in 1..(i - 1) : IsDigit(s[j])) - 1
    ELSE Len(s)

\* Length of the longest prefix of s made of white space.
SpacePrefixLen(s) ==
    IF \E i \in 1..Len(s) : ~IsSpace(s[i])
    THEN (CHOOSE i \in 1..Len(s) : ~IsSpace(s[i]) /\ \A j \in 1..(i - 1) : IsSpace(s[j])) - 1
    ELSE Len(s)

RECURSIVE NumVal(_)
\* Value of a sequence of digits (0 for the empty sequence).
NumVal(ds) ==
    IF ds = <<>> THEN 0
    ELSE NumVal(SubSeq(ds, 1, Len(ds) - 1)) * 10 + DigitVal(ds[Len(ds)])

\* Whether p is a prefix of s.
StartsWith(s, p) == Len(p) <= Len(s) /\ SubSeq(s, 1, Len(p)) = p

(***************************************************************************)
(* std::istringstream: the unread text and the eofbit / failbit.           *)
(***************************************************************************)
MkStream(s) == [rest |-> s, eof |-> FALSE, fail |-> FALSE]

Good(st) == ~st.eof /\ ~st.fail

\* std::getline(stream, str, delim).  old is the previous content of str:
\* when the sentry fails (the stream is not good) str is left as it was.
GetLine(st, delim, old) ==
    IF ~Good(st)
    THEN [ok |-> FALSE, str |-> old, st |-> [st EXCEPT !.fail = TRUE]]
    ELSE LET i == IndexOf(st.rest, delim) IN
         IF i > 0
         THEN [ok |-> TRUE, str |-> SubSeq(st.rest, 1, i - 1),
               st |-> [rest |-> From(st.rest, i + 1), eof |-> FALSE, fail |-> FALSE]]
         ELSE [ok |-> Len(st.rest) > 0, str |-> st.rest,
               st |-> [rest |-> <<>>, eof |-> TRUE, fail |-> Len(st.rest) = 0]]

\* std::stof: skips white space, then an optional sign, digits and an
\* optional fraction; throws std::invalid_argument (ok = FALSE) when no
\* digit can be converted.  The value is in thousandths.
Stof(s) ==
    LET s1 == From(s, SpacePrefixLen(s) + 1)
        signed == s1 # <<>> /\ s1[1] \in {"+", "-"}
        neg == s1 # <<>> /\ s1[1] = "-"
        s2 == IF signed THEN Tail(s1) ELSE s1
        n == DigitPrefixLen(s2)
        ip == SubSeq(s2, 1, n)
        r == From(s2, n + 1)
        hasDot == r # <<>> /\ r[1] = "."
        m == IF hasDot THEN DigitPrefixLen(Tail(r)) ELSE 0
        fp == IF hasDot THEN SubSeq(Tail(r), 1, m) ELSE <<>>
        fp3 == SubSeq(fp \o <<"0", "0", "0">>, 1, 3)
        mag == NumVal(ip) * Milli + NumVal(fp3)
    IN  [ok |-> n + m > 0, val |-> IF neg THEN 0 - mag ELSE mag]

\* std::stoi: skips white space, then an optional sign and digits; throws
\* std::invalid_argument (ok = FALSE) when there is no digit.
Stoi(s) ==
    LET s1 == From(s, SpacePrefixLen(s) + 1)
        signed == s1 # <<>> /\ s1[1] \in {"+", "-"}
        neg == s1 # <<>> /\ s1[1] = "-"
        s2 == IF signed THEN Tail(s1) ELSE s1
        n == DigitPrefixLen(s2)
        mag == NumVal(SubSeq(s2, 1, n))
    IN  [ok |-> n > 0, val |-> IF neg THEN 0 - mag ELSE mag]

\* iss >> std::boolalpha >> overrideValue.  The result is the set of values
\* overrideValue can hold afterwards.  A good stream skips white space and
\* matches "true" or "false"; on a mismatch the extraction stores false and
\* sets failbit.  When the stream is not good (nothing follows the keyword)
\* the sentry fails and overrideValue, which has no initializer, is never
\* written: reading it yields either value.
ExtractBool(st) ==
    IF ~Good(st) THEN {TRUE, FALSE}
    ELSE LET s1 == From(st.rest, SpacePrefixLen(st.rest) + 1) IN
         IF StartsWith(s1, <<"t", "r", "u", "e">>) THEN {TRUE}
         ELSE {FALSE}

(***************************************************************************)
(* Words of the wire protocol and of the snapshot.                         *)
(***************************************************************************)
K_jx == <<"j", "x">>
K_jy == <<"j", "y">>
K_px == <<"p", "x">>
K_cy == <<"c", "y">>
S_AXIS == <<"A", "X", "I", "S">>
S_OVERRIDE == <<"O", "V", "E", "R", "R", "I", "D", "E">>
S_SUBSCRIBE == <<"S", "U", "B", "S", "C", "R", "I", "B", "E">>
S_joystick == <<"j", "o", "y", "s", "t", "i", "c", "k">>
S_pedals == <<"p", "e", "d", "a", "l", "s">>
S_collective == <<"c", "o", "l", "l", "e", "c", "t", "i", "v", "e">>
S_dataref == <<"d", "a", "t", "a", "r", "e", "f">>
S_type == <<"t", "y", "p", "e">>
S_tag == <<"t", "a", "g">>
S_precision == <<"p", "r", "e", "c", "i", "s", "i", "o", "n">>
S_conversion == <<"c", "o", "n", "v", "e", "r", "s", "i", "o", "n">>
S_int == <<"i", "n", "t">>
S_float == <<"f", "l", "o", "a", "t">>
S_double == <<"d", "o", "u", "b", "l", "e">>
S_true == <<"t", "r", "u", "e">>
S_false == <<"f", "a", "l", "s", "e">>
S_src == <<"s", "r", "c">>
S_XPLANE == <<"X", "P", "L", "A", "N", "E">>
S_STOP == <<"S", "T", "O", "P">>
S_SimPaused == <<"S", "i", "m", "P", "a", "u", "s", "e", "d">>
S_cOvrd == <<"c", "O", "v", "r", "d">>
S_jOvrd == <<"j", "O", "v", "r", "d">>
S_pOvrd == <<"p", "O", "v", "r", "d">>
S_Foo == <<"F", "o", "o">>
S_N == <<"N">>
S_NumberEngines == <<"N", "u", "m", "b", "e", "r", "E", "n", "g", "i", "n", "e", "s">>
S_Vne == <<"V", "n", "e">>
\* A dataref path the simulator resolves.
P_simx == <<"s", "i", "m", "/", "x">>
\* A dataref path the simulator does not resolve.
P_simy == <<"s", "i", "m", "/", "y">>
Colon == <<":">>
Eq == <<"=">>
Comma == <<",">>

(***************************************************************************)
(* The datagrams the controller sends in this model.                       *)
(***************************************************************************)
\* OVERRIDE:joystick=true
D_OvJoyTrue == S_OVERRIDE \o Colon \o S_joystick \o Eq \o S_true
\* OVERRIDE:joystick=false
D_OvJoyFalse == S_OVERRIDE \o Colon \o S_joystick \o Eq \o S_false
\* OVERRIDE:pedals=true
D_OvPedTrue == S_OVERRIDE \o Colon \o S_pedals \o Eq \o S_true
\* OVERRIDE:collective=true
D_OvColTrue == S_OVERRIDE \o Colon \o S_collective \o Eq \o S_true
\* OVERRIDE:joystick=maybe
D_OvJoyMaybe == S_OVERRIDE \o Colon \o S_joystick \o Eq \o <<"m", "a", "y", "b", "e">>
\* OVERRIDE:joystick=1
D_OvJoyOne == S_OVERRIDE \o Colon \o S_joystick \o Eq \o <<"1">>
\* OVERRIDE:joystick
D_OvJoyBare == S_OVERRIDE \o Colon \o S_joystick
\* OVERRIDE:rudder=true
D_OvUnknown == S_OVERRIDE \o Colon \o <<"r", "u", "d", "d", "e", "r">> \o Eq \o S_true
\* AXIS:jx=0.5,jy=-0.2
D_Axis ==
    S_AXIS \o Colon \o K_jx \o Eq \o <<"0", ".", "5">> \o Comma
           \o K_jy \o Eq \o <<"-", "0", ".", "2">>
\* AXIS:px=0.3,jx=abc,cy=0.4
D_AxisBad ==
    S_AXIS \o Colon \o K_px \o Eq \o <<"0", ".", "3">> \o Comma
           \o K_jx \o Eq \o <<"a", "b", "c">> \o Comma
           \o K_cy \o Eq \o <<"0", ".", "4">>
\* GARBAGE
D_Garbage == <<"G", "A", "R", "B", "A", "G", "E">>
\* AXES:jx=0.9
D_Axes == <<"A", "X", "E", "S">> \o Colon \o K_jx \o Eq \o <<"0", ".", "9">>
\* SUBSCRIBE:dataref=sim/x,type=float,tag=Foo,precision=2,conversion=2.0
D_SubFull ==
    S_SUBSCRIBE \o Colon \o S_dataref \o Eq \o P_simx \o Comma
                \o S_type \o Eq \o S_float \o Comma
                \o S_tag \o Eq \o S_Foo \o Comma
                \o S_precision \o Eq \o <<"2">> \o Comma
                \o S_conversion \o Eq \o <<"2", ".", "0">>
\* SUBSCRIBE:dataref=sim/x,type=float
D_SubNoTag ==
    S_SUBSCRIBE \o Colon \o S_dataref \o Eq \o P_simx \o Comma
                \o S_type \o Eq \o S_float
\* SUBSCRIBE:dataref=sim/x,tag=Foo
D_SubNoType ==
    S_SUBSCRIBE \o Colon \o S_dataref \o Eq \o P_simx \o Comma
                \o S_tag \o Eq \o S_Foo
\* SUBSCRIBE:type=float,tag=Foo
D_SubNoRef ==
    S_SUBSCRIBE \o Colon \o S_type \o Eq \o S_float \o Comma
                \o S_tag \o Eq \o S_Foo
\* SUBSCRIBE:dataref=sim/x,type=float,tag=Foo,precision=p
D_SubBadPrec ==
    S_SUBSCRIBE \o Colon \o S_dataref \o Eq \o P_simx \o Comma
                \o S_type \o Eq \o S_float \o Comma
                \o S_tag \o Eq \o S_Foo \o Comma
                \o S_precision \o Eq \o <<"p">>
\* SUBSCRIBE:dataref=sim/x,type=int,tag=Foo
D_SubFooInt ==
    S_SUBSCRIBE \o Colon \o S_dataref \o Eq \o P_simx \o Comma
                \o S_type \o Eq \o S_int \o Comma
                \o S_tag \o Eq \o S_Foo
\* SUBSCRIBE:dataref=sim/x,type=string,tag=Foo
D_SubFooStr ==
    S_SUBSCRIBE \o Colon \o S_dataref \o Eq \o P_simx \o Comma
                \o S_type \o Eq \o <<"s", "t", "r", "i", "n", "g">> \o Comma
                \o S_tag \o Eq \o S_Foo
\* SUBSCRIBE:dataref=sim/y,type=float,tag=Foo
D_SubBadPath ==
    S_SUBSCRIBE \o Colon \o S_dataref \o Eq \o P_simy \o Comma
                \o S_type \o Eq \o S_float \o Comma
                \o S_tag \o Eq \o S_Foo
\* OVERRIDE:rudder
D_OvRudderBare == S_OVERRIDE \o Colon \o <<"r", "u", "d", "d", "e", "r">>
\* OVERRIDE:
D_OvEmpty == S_OVERRIDE \o Colon
\* AXIS:jx
D_AxisNoEq == S_AXIS \o Colon \o K_jx
\* AXIS:jx=5,cy=-1.5
D_AxisBig ==
    S_AXIS \o Colon \o K_jx \o Eq \o <<"5">> \o Comma
           \o K_cy \o Eq \o <<"-", "1", ".", "5">>
\* AXIS:jz=0.3,jx=0.1
D_AxisOther ==
    S_AXIS \o Colon \o <<"j", "z">> \o Eq \o <<"0", ".", "3">> \o Comma
           \o K_jx \o Eq \o <<"0", ".", "1">>
\* A datagram that fills the receive buffer: BufSize bytes, no ':'.
D_Full == [i \in 1..BufSize |-> "G"]

\* SUBSCRIBE:dataref=sim/x,type=int,tag=F;o
D_SubSeparators ==
    S_SUBSCRIBE \o Colon \o S_dataref \o Eq \o P_simx \o Comma
        \o S_type \o Eq \o S_int \o Comma \o S_tag \o Eq \o <<"F", ";", "o">>

\* SUBSCRIBE:dataref=sim/x,type=int,tag=jOvrd
D_SubJOvrd ==
    S_SUBSCRIBE \o Colon \o S_dataref \o Eq \o P_simx \o Comma
        \o S_type \o Eq \o S_int \o Comma \o S_tag \o Eq \o S_jOvrd

\* SUBSCRIBE:dataref=sim/x,type=int,tag=SimPaused
D_SubSimPaused ==
    S_SUBSCRIBE \o Colon \o S_dataref \o Eq \o P_simx \o Comma
        \o S_type \o Eq \o S_int \o Comma \o S_tag \o Eq \o S_SimPaused

\* A subscription whose tag is a per-aircraft key of the snapshot.
D_SubNumberEngines ==
    S_SUBSCRIBE \o Colon \o S_dataref \o Eq \o P_simx \o Comma
        \o S_type \o Eq \o S_int \o Comma \o S_tag \o Eq \o S_NumberEngines

\* The corpus of the runs about axis commands and the write-through.
AxisDatagrams ==
    { D_OvJoyTrue, D_OvPedTrue, D_OvColTrue, D_Axis, D_SubFull, D_Full }

\* The corpus of the runs about OVERRIDE commands and unknown datagrams.
OverrideDatagrams ==
    { D_OvJoyTrue, D_OvJoyFalse, D_OvPedTrue, D_OvColTrue, D_OvJoyMaybe,
      D_OvJoyOne, D_OvJoyBare, D_OvUnknown, D_OvRudderBare, D_OvEmpty,
      D_Garbage, D_Axes, D_AxisNoEq, D_SubFull, D_Full }

\* The corpus of the runs about SUBSCRIBE commands.
SubscribeDatagrams ==
    { D_SubFull, D_SubNoTag, D_SubNoType, D_SubNoRef, D_SubBadPrec,
      D_OvJoyTrue, D_AxisBad, D_Full }

\* The corpus of the runs about registering one key more than once.
ResubscribeDatagrams ==
    { D_SubFull, D_SubFooInt, D_SubFooStr, D_SubBadPath, D_AxisNoEq, D_Full }

\* The controller subscribes under a per-aircraft key while aircraft change.
AircraftDatagrams ==
    {D_SubNumberEngines, D_SubSeparators, D_AxisNoEq, D_Full}

\* The controller sends axis values outside the range of the axes.
\* Subscriptions under the keys of built-in fields.
BuiltinKeyDatagrams ==
    {D_SubJOvrd, D_SubSimPaused, D_OvJoyTrue, D_AxisNoEq, D_Full}

\* AXIS pairs under a key that is not one of the four axes.
AxisKeyDatagrams == {D_AxisOther, D_OvJoyTrue, D_SubFull, D_Full}

RangeDatagrams == {D_OvJoyTrue, D_OvColTrue, D_AxisBig, D_SubFull, D_Full}

Datagrams ==
    AxisDatagrams \cup OverrideDatagrams \cup SubscribeDatagrams
        \cup ResubscribeDatagrams

(***************************************************************************)
(* Maps (std::map): functions over the set of their keys.                  *)
(***************************************************************************)
EmptyMap == <<>>

\* m[k] = v of std::map: the key is inserted when it is absent.
MapPut(m, k, v) == [q \in (DOMAIN m) \cup {k} |-> IF q = k THEN v ELSE m[q]]

\* parameters[k] of std::map read: the empty string when k is absent.
MapStr(m, k) == IF k \in DOMAIN m THEN m[k] ELSE <<>>

(***************************************************************************)
(* Number formatting.                                                      *)
(***************************************************************************)
RECURSIVE Pow10(_)
Pow10(n) == IF n <= 0 THEN 1 ELSE 10 * Pow10(n - 1)

RECURSIVE NatToStr(_)
\* Decimal digits of a natural number.
NatToStr(n) ==
    IF n < 10 THEN <<Digits[n + 1]>>
    ELSE NatToStr(n \div 10) \o <<Digits[(n % 10) + 1]>>

\* std::to_string(int).
IntToStr(n) == IF n < 0 THEN <<"-">> \o NatToStr(0 - n) ELSE NatToStr(n)

\* std::to_string(bool): the bool is promoted to int.
BoolToStr(b) == IF b THEN <<"1">> ELSE <<"0">>

\* n written with exactly w digits (leading zeros).
RECURSIVE ZeroPad(_, _)
ZeroPad(n, w) ==
    IF w <= 0 THEN <<>>
    ELSE ZeroPad(n \div 10, w - 1) \o <<Digits[(n % 10) + 1]>>

\* The product of two floats (thousandths), rounded to the nearest.
MulMilli(a, b) ==
    LET prod == a * b
        mag == IF prod < 0 THEN 0 - prod ELSE prod
        r == (mag + (Milli \div 2)) \div Milli
    IN  IF prod < 0 THEN 0 - r ELSE r

\* FloatToString(value, precision, conversionFactor): value * factor in
\* std::fixed notation with `precision` decimals (6 when it is negative).
\* value and factor are in thousandths; the product is rounded to the
\* nearest representable decimal.
FloatToString(value, precision, conversionFactor) ==
    LET prod == value * conversionFactor
        neg == prod < 0
        mag == IF neg THEN 0 - prod ELSE prod
        p == IF precision < 0 THEN 6 ELSE precision
        \* mag is in millionths; q is in units of 10^-p.
        q == IF p >= 6 THEN mag * Pow10(p - 6)
             ELSE (mag + 5 * Pow10(5 - p)) \div Pow10(6 - p)
        ip == q \div Pow10(p)
        fr == q % Pow10(p)
    IN  (IF neg THEN <<"-">> ELSE <<>>) \o NatToStr(ip)
          \o (IF p > 0 THEN <<".">> \o ZeroPad(fr, p) ELSE <<>>)

\* The elements 1..n of an array, each written as operator<< writes
\* dataArray[i] * conversionFactor in std::fixed notation, with "~" between
\* two elements.
RECURSIVE JoinFloats(_, _, _, _)
JoinFloats(arr, n, conversionFactor, precision) ==
    IF n <= 0 THEN <<>>
    ELSE (IF n > 1
          THEN JoinFloats(arr, n - 1, conversionFactor, precision) \o <<"~">>
          ELSE <<>>)
         \o FloatToString(arr[n], precision, conversionFactor)

\* std::string::find_last_not_of(chars): the last position of s whose
\* character is not in chars; 0 stands for npos.
RECURSIVE FindLastNotOf(_, _)
FindLastNotOf(s, chars) ==
    IF Len(s) = 0 THEN 0
    ELSE IF s[Len(s)] \notin chars THEN Len(s)
    ELSE FindLastNotOf(SubSeq(s, 1, Len(s) - 1), chars)

\* FloatArrayToString(dataRef, conversionFactor, fixed_size, precision),
\* where arr is the array the simulator holds for dataRef.
FloatArrayToString(arr, conversionFactor, fixed_size, precision) ==
    LET size == IF fixed_size > 0 /\ fixed_size <= Len(arr)
                THEN fixed_size ELSE Len(arr)
        formatted == JoinFloats(arr, size, conversionFactor, precision)
        pos == FindLastNotOf(formatted, {"~", "0", "."})
    IN  IF fixed_size > 0 THEN formatted
        ELSE IF pos # 0 THEN SubSeq(formatted, 1, pos)
        ELSE formatted

\* The larger of two numbers (std::max).
Max(a, b) == IF a > b THEN a ELSE b

\* GetNumGear, loop body for slot i: the number of the three coordinates of
\* the slot that are not zero (each std::count_if runs over one element).
NonZeroCount(x, y, z, i) ==
    (IF x[i] # 0 THEN 1 ELSE 0) + (IF y[i] # 0 THEN 1 ELSE 0)
        + (IF z[i] # 0 THEN 1 ELSE 0)

\* GetNumGear over the slots 1..n of the tables read from the simulator:
\* maxNonZero after n iterations.
RECURSIVE GetNumGearUpTo(_, _, _, _)
GetNumGearUpTo(x, y, z, n) ==
    IF n <= 0 THEN 0
    ELSE Max(GetNumGearUpTo(x, y, z, n - 1), NonZeroCount(x, y, z, n))

\* GetNumGear() for the tables x, y, z of GearTableSize slots.
GetNumGear(x, y, z) == GetNumGearUpTo(x, y, z, GearTableSize)

(***************************************************************************)
(* The simulator's data-access layer.                                      *)
(***************************************************************************)
\* The paths XPLMFindDataRef resolves.
ResolvablePaths == {P_simx}

\* XPLMFindDataRef(path) != nullptr.
Resolves(path) == path \in ResolvablePaths

\* Values a float dataref can read as (thousandths).
SimFloats == {3000}

\* Values an int dataref can read as.
SimInts == {7}

\* Values of sim/time/paused.
PausedVals == {0, 1}

\* Aircraft the simulator may have loaded: the description (acf_ui_name or
\* acf_descrip), the model file name, the engine count and Vne in knots
\* (thousandths).
AC_Cessna == [descr |-> <<"C", "1", "7", "2">>, file |-> <<"c", ".", "a", "c", "f">>,
              engines |-> 1, vne |-> 160000]
AC_Baron == [descr |-> <<"B", "5", "8", ";", "G", "=", "1">>,
             file |-> <<"b", ".", "a", "c", "f">>, engines |-> 2, vne |-> 220000]
AC_Glider == [descr |-> <<>>, file |-> <<"g", ".", "a", "c", "f">>,
              engines |-> 0, vne |-> 120000]

\* CollectTelemetryData, lines 372-379: the aircraft name is the description
\* read from the simulator, or the model file name when it is empty.
AircraftName(ac) == IF Len(ac.descr) = 0 THEN ac.file ELSE ac.descr

(***************************************************************************)
(* ReceiveData / ProcessReceivedData, as functions of the text.            *)
(***************************************************************************)
\* The data type (up to the first ':') and the payload (the rest of the
\* line) of a datagram.
SplitDatagram(d) ==
    LET a == GetLine(MkStream(d), ":", <<>>)
        b == GetLine(a.st, "\n", <<>>)
    IN  [dataType |-> a.str, payload |-> b.str]

\* The branch of ProcessReceivedData a data type selects.
DataKind(dataType) ==
    IF dataType = S_AXIS THEN "AXIS"
    ELSE IF dataType = S_OVERRIDE THEN "OVERRIDE"
    ELSE IF dataType = S_SUBSCRIBE THEN "SUBSCRIBE"
    ELSE "UNKNOWN"

\* One token of an AXIS payload applied to the axis map: a token without
\* '=' is skipped; std::stof throws on a value with no leading number.
ApplyAxisToken(map, token) ==
    LET e == IndexOf(token, "=") IN
    IF e = 0 THEN [threw |-> FALSE, map |-> map]
    ELSE LET f == Stof(From(token, e + 1)) IN
         IF f.ok THEN [threw |-> FALSE, map |-> MapPut(map, SubSeq(token, 1, e - 1), f.val)]
         ELSE [threw |-> TRUE, map |-> map]

\* One iteration of the AXIS loop: while (std::getline(iss, token, ',')).
AxisStep(st, map) ==
    LET t == GetLine(st, ",", <<>>) IN
    IF ~t.ok THEN [done |-> TRUE, threw |-> FALSE, st |-> t.st, map |-> map]
    ELSE LET r == ApplyAxisToken(map, t.str) IN
         [done |-> FALSE, threw |-> r.threw, st |-> t.st, map |-> r.map]

\* The keyword and the possible values of overrideValue of an OVERRIDE
\* payload; ok is the result of std::getline(iss, keyValuePair, '=').
OverrideCmd(payload) ==
    LET k == GetLine(MkStream(payload), "=", <<>>) IN
    [ok |-> k.ok, keyword |-> k.str, values |-> ExtractBool(k.st)]

\* OverrideGroup with the final else falling into the joystick branch.
OverrideGroup_Default(keyword) ==
    IF keyword = S_pedals THEN "pedals"
    ELSE IF keyword = S_collective THEN "collective"
    ELSE "joystick"

\* The axis group an OVERRIDE keyword names.
OverrideGroup(keyword) ==
    IF keyword = S_joystick THEN "joystick"
    ELSE IF keyword = S_pedals THEN "pedals"
    ELSE IF keyword = S_collective THEN "collective"
    ELSE "none"

\* ApplyOverride with the joystick branch writing the roll channel only.
ApplyOverride_NoPitch(group, b, flags, ovd) ==
    LET v == IF b THEN 1 ELSE 0 IN
    IF group = "joystick"
    THEN [flags |-> [flags EXCEPT !.joystick = b],
          ovd |-> [ovd EXCEPT !.roll = <<v>>]]
    ELSE IF group = "pedals"
    THEN [flags |-> [flags EXCEPT !.pedals = b],
          ovd |-> [ovd EXCEPT !.yaw = <<v>>]]
    ELSE IF group = "collective"
    THEN [flags |-> [flags EXCEPT !.collective = b],
          ovd |-> [ovd EXCEPT !.prop = <<v>>]]
    ELSE [flags |-> flags, ovd |-> ovd]

\* The override flags and the simulator's override channels after the
\* OVERRIDE branch ran for `group` with overrideValue b.  A channel is <<>>
\* until the plug-in writes it, then <<0>> or <<1>>.
ApplyOverride(group, b, flags, ovd) ==
    LET v == IF b THEN 1 ELSE 0 IN
    IF group = "joystick"
    THEN [flags |-> [flags EXCEPT !.joystick = b],
          ovd |-> [ovd EXCEPT !.roll = <<v>>, !.pitch = <<v>>]]
    ELSE IF group = "pedals"
    THEN [flags |-> [flags EXCEPT !.pedals = b],
          ovd |-> [ovd EXCEPT !.yaw = <<v>>]]
    ELSE IF group = "collective"
    THEN [flags |-> [flags EXCEPT !.collective = b],
          ovd |-> [ovd EXCEPT !.prop = <<v>>]]
    ELSE [flags |-> flags, ovd |-> ovd]

RECURSIVE SubscribeParams(_, _, _)
\* while (std::getline(iss, key, '=')) { std::getline(iss, value, ',');
\* parameters[key] = value; }  value keeps its content when the second
\* getline finds the stream at its end.
SubscribeParams(st, value, params) ==
    LET k == GetLine(st, "=", <<>>) IN
    IF ~k.ok THEN params
    ELSE LET v == GetLine(k.st, ",", value) IN
         SubscribeParams(v.st, v.str, MapPut(params, k.str, v.str))

\* The arguments the SUBSCRIBE branch passes to RegisterDataRef; threw when
\* std::stoi or std::stof throws on the precision or conversion field.
SubscribeCmd(payload) ==
    LET params == SubscribeParams(MkStream(payload), <<>>, EmptyMap)
        prec == IF S_precision \in DOMAIN params
                THEN Stoi(params[S_precision])
                ELSE [ok |-> TRUE, val |-> DefaultPrecision]
        conv == IF S_conversion \in DOMAIN params
                THEN Stof(params[S_conversion])
                ELSE [ok |-> TRUE, val |-> DefaultConversion]
    IN  [threw |-> ~prec.ok \/ ~conv.ok,
         path |-> MapStr(params, S_dataref),
         type |-> MapStr(params, S_type),
         key |-> MapStr(params, S_tag),
         precision |-> prec.val,
         conversionFactor |-> conv.val]

\* RegisterDataRef storing the default precision whatever was passed.
RegisterDataRef_DefaultPrecision(reg, path, key, type, precision, conversionFactor) ==
    IF Resolves(path)
    THEN Append(reg, [dataRef |-> path, key |-> key, type |-> type,
                      precision |-> DefaultPrecision,
                      conversionFactor |-> conversionFactor])
    ELSE reg

\* RegisterDataRef without the test of what XPLMFindDataRef returned.
RegisterDataRef_NoNullCheck(reg, path, key, type, precision, conversionFactor) ==
    Append(reg, [dataRef |-> path, key |-> key, type |-> type,
                 precision |-> precision,
                 conversionFactor |-> conversionFactor])

\* RegisterDataRef: the registry after the call.
RegisterDataRef(reg, path, key, type, precision, conversionFactor) ==
    IF Resolves(path)
    THEN Append(reg, [dataRef |-> path, key |-> key, type |-> type,
                      precision |-> precision,
                      conversionFactor |-> conversionFactor])
    ELSE reg

\* One line DebugLog writes to the debug log: the message and the text
\* appended to it (the log file is opened when the plug-in starts).
LogRecord(msg, text) == [msg |-> msg, text |-> text]

\* The DebugLog call of RegisterDataRef.
RegisterDataRefLog(path) ==
    IF Resolves(path)
    THEN << LogRecord("Subscribed to DataRef", path) >>
    ELSE << LogRecord("Failed to subscribe to DataRef", path) >>

\* The DebugLog calls of the OVERRIDE branch, overrideValue being b.
OverrideLog(payload, ov, b) ==
    << LogRecord("Inside the Override block", <<>>) >>
    \o (IF ov.ok
        THEN << LogRecord("Received Keyword", ov.keyword),
                LogRecord("Stream Content", payload),
                LogRecord("Parsed overrideValue", BoolToStr(b)) >>
        ELSE <<>>)

\* What ReceiveData and ProcessReceivedData make of the text of datagram d.
Cmd(d) ==
    LET sp == SplitDatagram(d) IN
    [kind |-> DataKind(sp.dataType), payload |-> sp.payload,
     ov |-> OverrideCmd(sp.payload), sub |-> SubscribeCmd(sp.payload)]

(***************************************************************************)
(* The frame tick, as functions of the state it reads.                     *)
(***************************************************************************)
\* One XPLMSetDataf call on an axis channel, made by context ctx.
\* std::map::operator[]: the map after m[k] was evaluated; a key that is
\* absent is inserted with the value 0.0.
MapIndex(m, k) == IF k \in DOMAIN m THEN m ELSE MapPut(m, k, 0)

\* SendAxisPosition: the map after the reads axisDataMap["jx"], ... of the
\* overridden groups.
SendAxisPositionMap_ReadsJz(flags, map) ==
    LET m1 == IF flags.joystick
              THEN MapIndex(MapIndex(map, K_jx), <<"j", "z">>) ELSE map
        m2 == IF flags.pedals THEN MapIndex(m1, K_px) ELSE m1
    IN  IF flags.collective THEN MapIndex(m2, K_cy) ELSE m2

SendAxisPositionMap(flags, map) ==
    LET m1 == IF flags.joystick
              THEN MapIndex(MapIndex(map, K_jx), K_jy) ELSE map
        m2 == IF flags.pedals THEN MapIndex(m1, K_px) ELSE m1
    IN  IF flags.collective THEN MapIndex(m2, K_cy) ELSE m2

AxisWrite(ctx, chan, val) == [ctx |-> ctx, chan |-> chan, val |-> val]

\* SendAxisPosition with the pitch channel written from jx.
AxisWrites_PitchFromJx(flags, map) ==
    (IF flags.joystick
     THEN << AxisWrite("tick", "roll", map[K_jx]),
             AxisWrite("tick", "pitch", map[K_jx]) >>
     ELSE <<>>)
    \o (IF flags.pedals THEN << AxisWrite("tick", "yaw", map[K_px]) >> ELSE <<>>)
    \o (IF flags.collective THEN << AxisWrite("tick", "prop", map[K_cy]) >> ELSE <<>>)

\* SendAxisPosition: the XPLMSetDataf calls it makes, in order.
AxisWrites(flags, map) ==
    (IF flags.joystick
     THEN << AxisWrite("tick", "roll", map[K_jx]),
             AxisWrite("tick", "pitch", map[K_jy]) >>
     ELSE <<>>)
    \o (IF flags.pedals THEN << AxisWrite("tick", "yaw", map[K_px]) >> ELSE <<>>)
    \o (IF flags.collective THEN << AxisWrite("tick", "prop", map[K_cy]) >> ELSE <<>>)

\* The AXIS loop writing the overridden groups through as it goes.
RxAxisWrites_Through(flags, map) ==
    (IF flags.joystick
     THEN << AxisWrite("rx", "roll", map[K_jx]),
             AxisWrite("rx", "pitch", map[K_jy]) >>
     ELSE <<>>)
    \o (IF flags.pedals THEN << AxisWrite("rx", "yaw", map[K_px]) >> ELSE <<>>)
    \o (IF flags.collective THEN << AxisWrite("rx", "prop", map[K_cy]) >> ELSE <<>>)

\* The XPLMSetDataf calls of one iteration of the AXIS loop of
\* ProcessReceivedData: it makes none ("Perform actions based on AXIS
\* data" is left empty).
RxAxisWrites(flags, map) == <<>>

\* The registry loop applying the conversion factor a second time when it
\* formats the value.
CollectSub_ConvTwice(snap, sub, readInt, readFloat) ==
    IF sub.type = S_int THEN MapPut(snap, sub.key, IntToStr(readInt))
    ELSE IF sub.type = S_float \/ sub.type = S_double
    THEN MapPut(snap, sub.key,
                FloatToString(MulMilli(readFloat, sub.conversionFactor),
                              sub.precision, sub.conversionFactor))
    ELSE snap

\* One subscription in the registry loop of CollectTelemetryData: the
\* snapshot after it, given what the dataref reads as.
CollectSub(snap, sub, readInt, readFloat) ==
    IF sub.type = S_int THEN MapPut(snap, sub.key, IntToStr(readInt))
    ELSE IF sub.type = S_float \/ sub.type = S_double
    THEN MapPut(snap, sub.key,
                FloatToString(MulMilli(readFloat, sub.conversionFactor),
                              sub.precision, DefaultConversion))
    ELSE snap

\* The DebugLog call of one iteration of the registry loop.
CollectSubLog(sub) ==
    IF sub.type = S_int \/ sub.type = S_float \/ sub.type = S_double
    THEN <<>>
    ELSE << LogRecord("Unsupported dataref type", sub.type) >>

RECURSIVE PutAll(_, _)
\* Fields stored with std::map::insert, which keeps the value of a key that
\* is already in the map.
PutAll_KeepExisting(snap, kvs) ==
    [k \in DOMAIN snap \cup {kvs[i][1] : i \in 1..Len(kvs)} |->
        IF k \in DOMAIN snap THEN snap[k]
        ELSE kvs[CHOOSE i \in 1..Len(kvs) :
                    kvs[i][1] = k /\ \A j \in 1..(i - 1) : kvs[j][1] # k][2]]

\* snap with every <<key, value>> of the sequence kvs assigned in order.
PutAll(snap, kvs) ==
    IF kvs = <<>> THEN snap
    ELSE PutAll(MapPut(snap, kvs[1][1], kvs[1][2]), Tail(kvs))

\* The per-frame fields CollectTelemetryData assigns after the registry
\* loop, in order (the fields read from datarefs other than the pause flag
\* are left out of the model).
BuiltinFields(name, paused, flags) ==
    << <<S_src, S_XPLANE>>,
       <<S_N, name>>,
       <<S_STOP, IntToStr(paused)>>,
       <<S_SimPaused, BoolToStr(paused = 1)>>,
       <<S_cOvrd, BoolToStr(flags.collective)>>,
       <<S_jOvrd, BoolToStr(flags.joystick)>>,
       <<S_pOvrd, BoolToStr(flags.pedals)>> >>

\* GetACDetails: the per-aircraft fields of the snapshot, from the aircraft
\* the simulator has loaded.
GetACDetails(snap, ac) ==
    PutAll(snap,
           << <<S_NumberEngines, IntToStr(ac.engines)>>,
              <<S_Vne, FloatToString(MulMilli(ac.vne, Kt2Mps), 3,
                                     DefaultConversion)>> >>)

\* The characters of the model in the order of their codes (the order of
\* std::string comparison); the double quote, the backslash and the
\* backquote are left out.
AsciiOrder ==
    << " ", "!", "#", "$", "%", "&", "'", "(", ")", "*", "+", ",", "-", ".",
       "/", "0", "1", "2", "3", "4", "5", "6", "7", "8", "9", ":", ";", "<",
       "=", ">", "?", "@", "A", "B", "C", "D", "E", "F", "G", "H", "I", "J",
       "K", "L", "M", "N", "O", "P", "Q", "R", "S", "T", "U", "V", "W", "X",
       "Y", "Z", "[", "]", "^", "_", "a", "b", "c", "d", "e", "f", "g",
       "h", "i", "j", "k", "l", "m", "n", "o", "p", "q", "r", "s", "t", "u",
       "v", "w", "x", "y", "z", "{", "|", "}", "~" >>

CharCode(c) == CHOOSE i \in 1..Len(AsciiOrder) : AsciiOrder[i] = c

\* std::less<std::string>: a < b in lexicographic order.
RECURSIVE StrLess(_, _)
StrLess(a, b) ==
    IF Len(b) = 0 THEN FALSE
    ELSE IF Len(a) = 0 THEN TRUE
    ELSE IF a[1] = b[1] THEN StrLess(Tail(a), Tail(b))
    ELSE CharCode(a[1]) < CharCode(b[1])

\* The first key of a non-empty set of keys in the order of std::map.
FirstKey(keys) == CHOOSE k \in keys : \A q \in keys \ {k} : StrLess(k, q)

\* FormatAndSendTelemetryData, the loop: entry.first + "=" + entry.second
\* + ";" for the entries with the given keys, in the order of the map.
RECURSIVE FormatEntries_NoSemicolon(_, _)
FormatEntries_NoSemicolon(snap, keys) ==
    IF keys = {} THEN <<>>
    ELSE LET k == FirstKey(keys)
         IN  k \o <<"=">> \o snap[k]
               \o FormatEntries_NoSemicolon(snap, keys \ {k})

RECURSIVE FormatEntries(_, _)
FormatEntries(snap, keys) ==
    IF keys = {} THEN <<>>
    ELSE LET k == FirstKey(keys)
         IN  k \o <<"=">> \o snap[k] \o <<";">>
               \o FormatEntries(snap, keys \ {k})

\* The datagram FormatAndSendTelemetryData builds from the snapshot.
FormatTelemetryData(snap) == FormatEntries(snap, DOMAIN snap)

(***************************************************************************)
(* State.                                                                  *)
(***************************************************************************)
VARIABLES
    axisDataMap,            \* std::map<std::string, float> axisDataMap
    overrideJoystick,       \* bool overrideJoystick
    overridePedals,         \* bool overridePedals
    overrideCollective,     \* bool overrideCollective
    subscribedDataRefs,     \* std::vector<DataRefSubscription>
    telemetryData,          \* std::map<std::string, std::string>
    simPaused,              \* bool simPaused
    simOvd,                 \* the simulator's override channels, as last written
    axisDataMutex,          \* holder of axisDataMutex: "free", "tick" or "rx"
    pcT,                    \* position of the frame-tick context
    tIdx,                   \* registry loop: index of the next element
    tEnd,                   \* registry loop: end() taken when the loop began
    tInvalid,               \* registry loop: a push_back ran since it began
    axisWrites,             \* XPLMSetDataf calls on axis channels since the tick began
    tickLog,                \* lines the tick wrote to the debug log since it began
    tickSent,               \* whether the current tick called sendto
    pcR,                    \* position of the receive context
    rxBuffer,               \* ReceiveData: the datagram in buffer (<<>> outside the call)
    rxStream,               \* AXIS branch: the istringstream over the payload
    rxLog,                  \* lines ReceiveData wrote to the debug log in this call
    fault,                  \* "none", or why the process was terminated
    gTerminateReceiveThread,\* bool gTerminateReceiveThread
    logMutex,               \* holder of logMutex: "free", "tick" or "rx"
    faDataArray,            \* FloatArrayToString: the simulator's array for dataRef
    faConversion,           \* FloatArrayToString: conversionFactor
    faFixedSize,            \* FloatArrayToString: fixed_size
    faPrecision,            \* FloatArrayToString: precision
    faResult,               \* FloatArrayToString: the string returned
    gAircraftName,          \* char gAircraftName[250]
    gPrevAircraftName,      \* char gPrevAircraftName[250]
    simFleet,               \* the aircraft the simulator may have loaded at a tick
    pcF,                    \* "call" before a call under study, "done" after it
    arrayX,                 \* GetNumGear: the table read from gGearXNode
    arrayY,                 \* GetNumGear: the table read from gGearYNode
    arrayZ,                 \* GetNumGear: the table read from gGearZNode
    maxNonZero,             \* GetNumGear: the count returned
    pcG,                    \* "call" before a call under study, "done" after it
    dataString,             \* FormatAndSendTelemetryData: the datagram given to sendto
    pcE                     \* "call" before a call under study, "done" after it

vars ==
    << axisDataMap, overrideJoystick, overridePedals, overrideCollective,
       subscribedDataRefs, telemetryData, simPaused, simOvd, axisDataMutex,
       pcT, tIdx, tEnd, tInvalid, axisWrites, tickLog, tickSent,
       pcR, rxBuffer, rxStream, rxLog, fault, gTerminateReceiveThread,
       logMutex, gAircraftName, gPrevAircraftName, simFleet,
       faDataArray, faConversion, faFixedSize, faPrecision, faResult, pcF,
       arrayX, arrayY, arrayZ, maxNonZero, pcG, dataString, pcE >>

\* A call of FloatArrayToString studied on its own.
faVars == << faDataArray, faConversion, faFixedSize, faPrecision, faResult, pcF >>

\* A call of GetNumGear studied on its own.
gearVars == << arrayX, arrayY, arrayZ, maxNonZero, pcG >>

\* A call of FormatAndSendTelemetryData studied on its own.
encVars == << dataString, pcE >>

\* The calls studied on their own: the program's steps leave them alone.
callVars == << faVars, gearVars, encVars >>

sharedVars ==
    << axisDataMap, overrideJoystick, overridePedals, overrideCollective,
       subscribedDataRefs >>

\* The aircraft identity and the aircraft the simulator offers.
acVars == << gAircraftName, gPrevAircraftName, simFleet >>

tickVars ==
    << telemetryData, simPaused, pcT, tIdx, tEnd, tickSent, tickLog, acVars >>

rxVars == << pcR, rxBuffer, rxStream, rxLog >>

\* The three override flags as one record.
Flags ==
    [joystick |-> overrideJoystick, pedals |-> overridePedals,
     collective |-> overrideCollective]

\* The globals after XPluginStart, but for the snapshot.
InitGlobals ==
    /\ axisDataMap = [k \in {K_jx, K_jy, K_px, K_cy} |-> 0]
    /\ overrideJoystick = FALSE
    /\ overridePedals = FALSE
    /\ overrideCollective = FALSE
    /\ subscribedDataRefs = <<>>
    /\ simPaused = FALSE
    /\ simOvd = [roll |-> <<>>, pitch |-> <<>>, yaw |-> <<>>, prop |-> <<>>]
    /\ axisDataMutex = "free"
    /\ pcT = "idle"
    /\ tIdx = 1
    /\ tEnd = 0
    /\ tInvalid = FALSE
    /\ axisWrites = <<>>
    /\ tickLog = <<>>
    /\ tickSent = FALSE
    /\ pcR = "loop"
    /\ rxBuffer = <<>>
    /\ rxStream = MkStream(<<>>)
    /\ rxLog = <<>>
    /\ fault = "none"
    /\ gTerminateReceiveThread = FALSE
    /\ logMutex = "free"
    /\ gAircraftName = <<>>
    /\ gPrevAircraftName = <<>>

\* The globals and the empty snapshot.
InitProgram ==
    /\ InitGlobals
    /\ telemetryData = EmptyMap

\* No call of FloatArrayToString is under study.
FaIdle ==
    /\ faDataArray = <<>>
    /\ faConversion = Milli
    /\ faFixedSize = -1
    /\ faPrecision = DefaultPrecision
    /\ faResult = <<>>
    /\ pcF = "done"

\* std::vector<float>(size): a table of GearTableSize zeros.
ZeroTable == [i \in 1..GearTableSize |-> 0]

\* No call of GetNumGear is under study.
GearIdle ==
    /\ arrayX = ZeroTable
    /\ arrayY = ZeroTable
    /\ arrayZ = ZeroTable
    /\ maxNonZero = 0
    /\ pcG = "done"

\* No call of FormatAndSendTelemetryData is under study.
EncIdle ==
    /\ dataString = <<>>
    /\ pcE = "done"

Init ==
    /\ InitProgram
    /\ simFleet = {AC_Cessna}
    /\ FaIdle
    /\ GearIdle
    /\ EncIdle

\* DebugLog's lock_guard: a context enters DebugLog only when no other context
\* is inside it.
LogMutexFree(ctx) == logMutex \in {"free", ctx}

\* A DebugLog whose guard is never destroyed: the mutex stays with the caller.
LogMutexAfter_NeverReleased(ctx, logs) == IF logs THEN ctx ELSE logMutex

\* The holder of logMutex after a step of context ctx. A step that ends in a
\* DebugLog call leaves the context inside it, holding the mutex; the call
\* returns, and its lock_guard releases the mutex, before anything else the
\* context does, so the context's next step starts with the mutex released.
LogMutexAfter(ctx, logs) ==
    IF logs THEN ctx ELSE IF logMutex = ctx THEN "free" ELSE logMutex

(***************************************************************************)
(* The frame-tick context: MyFlightLoopCallback.                           *)
(***************************************************************************)
\* SendAxisPosition without its lock_guard.
T_SendAxisPosition_NoLock ==
    /\ fault = "none"
    /\ ~gTerminateReceiveThread
    /\ pcT = "idle"
    /\ axisWrites' = AxisWrites(Flags, axisDataMap)
    /\ tickSent' = FALSE
    /\ pcT' = "unlock"
    /\ UNCHANGED << sharedVars, telemetryData, simPaused, simOvd, tIdx, tEnd,
                    tInvalid, tickLog, rxVars, fault, axisDataMutex,
                    gTerminateReceiveThread, logMutex, callVars, acVars >>

\* SendAxisPosition up to its last statement: the lock is taken and the
\* axis values of the overridden groups are written to the simulator.
T_SendAxisPosition ==
    /\ fault = "none"
    /\ ~gTerminateReceiveThread
    /\ pcT = "idle"
    /\ axisDataMutex = "free"
    /\ axisDataMutex' = "tick"
    /\ axisWrites' = AxisWrites(Flags, axisDataMap)
    /\ tickSent' = FALSE
    /\ pcT' = "unlock"
    /\ axisDataMap' = SendAxisPositionMap(Flags, axisDataMap)
    /\ UNCHANGED << overrideJoystick, overridePedals, overrideCollective,
                    subscribedDataRefs, telemetryData, simPaused, simOvd, tIdx, tEnd,
                    tInvalid, tickLog, rxVars, fault >>
    /\ UNCHANGED gTerminateReceiveThread
    /\ UNCHANGED callVars
    /\ UNCHANGED logMutex
    /\ UNCHANGED acVars

\* SendAxisPosition returns: the lock_guard releases the mutex.
T_Unlock ==
    /\ fault = "none"
    /\ pcT = "unlock"
    /\ axisDataMutex' = "free"
    /\ pcT' = "identity"
    /\ UNCHANGED << sharedVars, telemetryData, simPaused, simOvd, tIdx, tEnd,
                    tInvalid, axisWrites, tickLog, tickSent, rxVars, fault >>
    /\ UNCHANGED gTerminateReceiveThread
    /\ UNCHANGED callVars
    /\ UNCHANGED logMutex
    /\ UNCHANGED acVars

\* CollectTelemetryData up to the registry loop: the aircraft name is read;
\* when it differs from the cached one GetACDetails runs and the cache is
\* updated.
T_Identity ==
    /\ fault = "none"
    /\ pcT = "identity"
    /\ \E ac \in simFleet :
          \E name \in {AircraftName(ac)} :
             /\ gAircraftName' = name
             /\ IF name # gPrevAircraftName
                THEN /\ tickLog' = tickLog \o
                                      << LogRecord("Aircraft Changed to", name) >>
                     /\ telemetryData' = GetACDetails(telemetryData, ac)
                     /\ gPrevAircraftName' = name
                     /\ LogMutexFree("tick")
                     /\ logMutex' = LogMutexAfter("tick", TRUE)
                ELSE UNCHANGED << tickLog, telemetryData, gPrevAircraftName,
                                  logMutex >>
    /\ pcT' = "regbegin"
    /\ UNCHANGED << sharedVars, simPaused, simOvd, axisDataMutex, tIdx, tEnd,
                    tInvalid, axisWrites, tickSent, rxVars, fault, simFleet,
                    gTerminateReceiveThread >>
    /\ UNCHANGED callVars

\* CollectTelemetryData: the range-for over subscribedDataRefs takes
\* begin() and end().  No lock is held.
T_RegBegin ==
    /\ fault = "none"
    /\ pcT = "regbegin"
    /\ tIdx' = 1
    /\ tEnd' = Len(subscribedDataRefs)
    /\ tInvalid' = FALSE
    /\ pcT' = "regloop"
    /\ UNCHANGED << sharedVars, telemetryData, simPaused, simOvd,
                    axisDataMutex, axisWrites, tickLog, tickSent, rxVars, fault >>
    /\ UNCHANGED gTerminateReceiveThread
    /\ UNCHANGED callVars
    /\ logMutex' = LogMutexAfter("tick", FALSE)
    /\ UNCHANGED acVars

\* One iteration of the registry loop.  When a push_back ran since the loop
\* began the iterators may dangle: the read either still finds the element
\* or terminates the process.
T_RegStep ==
    /\ fault = "none"
    /\ pcT = "regloop"
    /\ tIdx <= tEnd
    /\ \/ /\ \E ri \in SimInts, rf \in SimFloats :
                telemetryData' =
                    CollectSub(telemetryData, subscribedDataRefs[tIdx], ri, rf)
          /\ \E lines \in {CollectSubLog(subscribedDataRefs[tIdx])} :
                /\ tickLog' = tickLog \o lines
                /\ lines # <<>> => LogMutexFree("tick")
                /\ logMutex' = LogMutexAfter("tick", lines # <<>>)
          /\ tIdx' = tIdx + 1
          /\ UNCHANGED fault
       \/ /\ tInvalid
          /\ fault' = "tick_race"
          /\ UNCHANGED << telemetryData, tickLog, tIdx, logMutex >>
    /\ UNCHANGED << sharedVars, simPaused, simOvd, axisDataMutex, pcT, tEnd,
                    tInvalid, axisWrites, tickSent, rxVars >>
    /\ UNCHANGED gTerminateReceiveThread
    /\ UNCHANGED callVars
    /\ UNCHANGED acVars

\* The rest of CollectTelemetryData: the per-frame fields, the pause flag
\* and the override flags, read without the lock.
T_Builtins ==
    /\ fault = "none"
    /\ pcT = "regloop"
    /\ tIdx > tEnd
    /\ \E paused \in PausedVals :
          /\ telemetryData' = PutAll(telemetryData, BuiltinFields(gAircraftName, paused, Flags))
          /\ simPaused' = (paused = 1)
    /\ pcT' = "send"
    /\ tIdx' = 1
    /\ tEnd' = 0
    /\ tInvalid' = FALSE
    /\ UNCHANGED << sharedVars, simOvd, axisDataMutex, axisWrites, tickLog,
                    tickSent, rxVars, fault >>
    /\ UNCHANGED gTerminateReceiveThread
    /\ UNCHANGED callVars
    /\ logMutex' = LogMutexAfter("tick", FALSE)
    /\ UNCHANGED acVars

\* A callback that sends on every tick, paused or not.
T_Send_Always ==
    /\ fault = "none"
    /\ pcT = "send"
    /\ tickSent' = TRUE
    /\ axisWrites' = <<>>
    /\ tickLog' = <<>>
    /\ pcT' = "idle"
    /\ UNCHANGED << sharedVars, telemetryData, simPaused, simOvd,
                    axisDataMutex, tIdx, tEnd, tInvalid, rxVars, fault,
                    gTerminateReceiveThread, callVars, logMutex, acVars >>

\* if (!simPaused) FormatAndSendTelemetryData(); return -1.
T_Send ==
    /\ fault = "none"
    /\ pcT = "send"
    /\ tickSent' = ~simPaused
    /\ axisWrites' = <<>>
    /\ tickLog' = <<>>
    /\ pcT' = "idle"
    /\ UNCHANGED << sharedVars, telemetryData, simPaused, simOvd,
                    axisDataMutex, tIdx, tEnd, tInvalid, rxVars, fault >>
    /\ UNCHANGED gTerminateReceiveThread
    /\ UNCHANGED callVars
    /\ UNCHANGED logMutex
    /\ UNCHANGED acVars

(***************************************************************************)
(* The receive context: ReceiveThread / ReceiveData.                       *)
(***************************************************************************)
\* ReceiveThread evaluates the condition of its loop: it calls ReceiveData,
\* which blocks in recvfrom, or it returns.
R_Loop ==
    /\ fault = "none"
    /\ pcR = "loop"
    /\ pcR' = IF gTerminateReceiveThread THEN "done" ELSE "recv"
    /\ UNCHANGED << sharedVars, tickVars, simOvd, axisDataMutex, tInvalid,
                    axisWrites, rxBuffer, rxStream, rxLog, fault,
                    gTerminateReceiveThread >>
    /\ UNCHANGED callVars
    /\ UNCHANGED logMutex

\* recvfrom on the open socket returns no datagram (an error, or a datagram
\* of length 0): ReceiveData returns.
R_RecvNothing ==
    /\ fault = "none"
    /\ pcR = "recv"
    /\ ~gTerminateReceiveThread
    /\ pcR' = "loop"
    /\ UNCHANGED << sharedVars, tickVars, simOvd, axisDataMutex, tInvalid,
                    axisWrites, rxBuffer, rxStream, rxLog, fault,
                    gTerminateReceiveThread >>
    /\ UNCHANGED callVars
    /\ UNCHANGED logMutex

\* recvfrom on the socket that XPluginStop closed fails: ReceiveData returns.
R_RecvClosed ==
    /\ fault = "none"
    /\ pcR = "recv"
    /\ gTerminateReceiveThread
    /\ pcR' = "loop"
    /\ UNCHANGED << sharedVars, tickVars, simOvd, axisDataMutex, tInvalid,
                    axisWrites, rxBuffer, rxStream, rxLog, fault,
                    gTerminateReceiveThread >>
    /\ UNCHANGED callVars
    /\ UNCHANGED logMutex

\* recvfrom fills the whole buffer: buffer[recvlen] = 0 writes one byte past
\* the end of the buffer.  The byte may belong to nothing that is read
\* again, or to the frame's guard, which terminates the process.
R_RecvFull(d) ==
    /\ fault = "none"
    /\ pcR = "recv"
    /\ ~gTerminateReceiveThread
    /\ Len(d) >= BufSize
    /\ rxBuffer' = d
    /\ fault' = "rx_overflow"
    /\ UNCHANGED << sharedVars, tickVars, simOvd, axisDataMutex, tInvalid,
                    axisWrites, pcR, rxStream, rxLog >>
    /\ UNCHANGED gTerminateReceiveThread
    /\ UNCHANGED callVars
    /\ UNCHANGED logMutex

\* ProcessReceivedData up to the end of its branch (the AXIS branch: up to
\* its loop), for the command c read from a datagram, under the lock.
Dispatch(c) ==
    \/ /\ c.kind = "AXIS"
       /\ rxStream' = MkStream(c.payload)
       /\ pcR' = "axis"
       /\ UNCHANGED << sharedVars, simOvd, tInvalid, rxLog, fault, logMutex >>
    \/ /\ c.kind = "OVERRIDE"
       /\ IF c.ov.ok
          THEN \E b \in c.ov.values :
                 \E r \in {ApplyOverride(OverrideGroup(c.ov.keyword), b, Flags, simOvd)} :
                     /\ overrideJoystick' = r.flags.joystick
                     /\ overridePedals' = r.flags.pedals
                     /\ overrideCollective' = r.flags.collective
                     /\ simOvd' = r.ovd
                     /\ rxLog' = OverrideLog(c.payload, c.ov, b)
          ELSE /\ rxLog' = OverrideLog(c.payload, c.ov, FALSE)
               /\ UNCHANGED << overrideJoystick, overridePedals,
                               overrideCollective, simOvd >>
       /\ LogMutexFree("rx")
       /\ logMutex' = LogMutexAfter("rx", TRUE)
       /\ pcR' = "unlock"
       /\ UNCHANGED << axisDataMap, subscribedDataRefs, tInvalid, rxStream, fault >>
    \/ /\ c.kind = "SUBSCRIBE"
       /\ IF c.sub.threw
          THEN /\ fault' = "rx_exception"
               /\ UNCHANGED << subscribedDataRefs, tInvalid, pcR, rxLog, logMutex >>
          ELSE \E reg \in {RegisterDataRef(subscribedDataRefs, c.sub.path, c.sub.key,
                                           c.sub.type, c.sub.precision,
                                           c.sub.conversionFactor)} :
                 /\ Len(reg) <= MaxSubs
                 /\ subscribedDataRefs' = reg
                 /\ tInvalid' = (tInvalid \/ (reg # subscribedDataRefs /\ pcT = "regloop"))
                 /\ rxLog' = RegisterDataRefLog(c.sub.path)
                 /\ LogMutexFree("rx")
                 /\ logMutex' = LogMutexAfter("rx", TRUE)
                 /\ pcR' = "unlock"
                 /\ UNCHANGED fault
       /\ UNCHANGED << axisDataMap, overrideJoystick, overridePedals,
                       overrideCollective, simOvd, rxStream >>
    \/ /\ c.kind = "UNKNOWN"
       /\ rxLog' = << LogRecord("Unknown Packet", c.payload) >>
       /\ LogMutexFree("rx")
       /\ logMutex' = LogMutexAfter("rx", TRUE)
       /\ pcR' = "unlock"
       /\ UNCHANGED << sharedVars, simOvd, tInvalid, rxStream, fault >>

\* ReceiveData for a datagram d: the text is split, the lock is taken and
\* ProcessReceivedData runs.  The AXIS branch is left at its loop; the other
\* branches run to their end.  The lock is still held afterwards.
R_Receive(d) ==
    /\ fault = "none"
    /\ pcR = "recv"
    /\ ~gTerminateReceiveThread
    /\ axisDataMutex = "free"
    /\ axisDataMutex' = "rx"
    /\ rxBuffer' = d
    /\ \E c \in {Cmd(d)} : Dispatch(c)
    /\ UNCHANGED << tickVars, axisWrites >>
    /\ UNCHANGED gTerminateReceiveThread
    /\ UNCHANGED callVars

\* One iteration of the AXIS loop, under the lock.  An exception thrown by
\* std::stof is caught nowhere: std::terminate ends the process.
R_AxisPair ==
    /\ fault = "none"
    /\ pcR = "axis"
    /\ \E r \in {AxisStep(rxStream, axisDataMap)} :
          /\ rxStream' = r.st
          /\ IF r.threw
             THEN /\ fault' = "rx_exception"
                  /\ UNCHANGED << axisDataMap, pcR >>
             ELSE /\ axisDataMap' = r.map
                  /\ pcR' = IF r.done THEN "unlock" ELSE "axis"
                  /\ UNCHANGED fault
          /\ axisWrites' = axisWrites \o (IF r.done \/ r.threw THEN <<>>
                                          ELSE RxAxisWrites(Flags, r.map))
    /\ UNCHANGED << overrideJoystick, overridePedals, overrideCollective,
                    subscribedDataRefs, tickVars, simOvd, axisDataMutex,
                    tInvalid, rxBuffer, rxLog >>
    /\ UNCHANGED gTerminateReceiveThread
    /\ UNCHANGED callVars
    /\ UNCHANGED logMutex

\* The locked scope of ReceiveData ends; ReceiveThread loops.
R_Unlock ==
    /\ fault = "none"
    /\ pcR = "unlock"
    /\ axisDataMutex' = "free"
    /\ pcR' = "loop"
    /\ rxBuffer' = <<>>
    /\ rxStream' = MkStream(<<>>)
    /\ rxLog' = <<>>
    /\ UNCHANGED << sharedVars, tickVars, simOvd, tInvalid, axisWrites, fault >>
    /\ UNCHANGED gTerminateReceiveThread
    /\ UNCHANGED callVars
    /\ logMutex' = LogMutexAfter("rx", FALSE)

\* XPluginStop, called by the host between two frame ticks: the flight loop
\* callback is unregistered, the flag is set and the sockets are closed.
XPluginStop ==
    /\ fault = "none"
    /\ pcT = "idle"
    /\ ~gTerminateReceiveThread
    /\ gTerminateReceiveThread' = TRUE
    /\ UNCHANGED << sharedVars, tickVars, simOvd, axisDataMutex, tInvalid,
                    axisWrites, rxVars, fault >>
    /\ UNCHANGED callVars
    /\ UNCHANGED logMutex

\* The steps of the two contexts when the controller sends the datagrams of D.
NextOn(D) ==
    \/ T_SendAxisPosition
    \/ T_Unlock
    \/ T_Identity
    \/ T_RegBegin
    \/ T_RegStep
    \/ T_Builtins
    \/ T_Send
    \/ XPluginStop
    \/ R_Loop
    \/ R_RecvNothing
    \/ R_RecvClosed
    \/ \E d \in D : R_RecvFull(d)
    \/ \E d \in D : R_Receive(d)
    \/ R_AxisPair
    \/ R_Unlock

Next == NextOn(Datagrams)

Spec == Init /\ [][Next]_vars

NextAxis == NextOn(AxisDatagrams)

\* The controller sends axis commands (and what enables them).
SpecAxis == Init /\ [][NextAxis]_vars

NextOverride == NextOn(OverrideDatagrams)

\* The controller sends OVERRIDE commands and unknown datagrams.
SpecOverride == Init /\ [][NextOverride]_vars

NextSubscribe == NextOn(SubscribeDatagrams)

\* The controller sends SUBSCRIBE commands.
SpecSubscribe == Init /\ [][NextSubscribe]_vars

NextResubscribe == NextOn(ResubscribeDatagrams)

\* The controller registers the key Foo, more than once.
SpecResubscribe == Init /\ [][NextResubscribe]_vars

\* The steps that follow from the program's own control flow: the callback
\* returns -1, so the host calls it again on the next frame while it is
\* registered; a frame tick that began runs to its end; a datagram that was
\* received is handled; the loop condition is evaluated; and recvfrom fails
\* on a closed socket.  The arrival of a datagram, the return of recvfrom on
\* the open socket and the stop of the plugin are up to the environment.
Fairness ==
    /\ WF_vars(T_SendAxisPosition)
    /\ WF_vars(T_Unlock)
    /\ WF_vars(T_Identity)
    /\ WF_vars(T_RegBegin)
    /\ WF_vars(T_RegStep)
    /\ WF_vars(T_Builtins)
    /\ WF_vars(T_Send)
    /\ WF_vars(R_AxisPair)
    /\ WF_vars(R_Unlock)
    /\ WF_vars(R_Loop)
    /\ WF_vars(R_RecvClosed)

\* The plugin from its start to after its stop, under the fairness above.
SpecStop == SpecResubscribe /\ Fairness

\* The pilot changes aircraft between frame ticks.
InitAircraft ==
    /\ InitProgram
    /\ simFleet = {AC_Cessna, AC_Baron, AC_Glider}
    /\ FaIdle
    /\ GearIdle
    /\ EncIdle

NextAircraft == NextOn(AircraftDatagrams)

SpecAircraft == InitAircraft /\ [][NextAircraft]_vars

NextBuiltinKey == NextOn(BuiltinKeyDatagrams)

\* The controller subscribes under the keys of built-in fields.
SpecBuiltinKey == Init /\ [][NextBuiltinKey]_vars

NextAxisKey == NextOn(AxisKeyDatagrams)

\* The controller names an axis the plugin does not have.
SpecAxisKey == Init /\ [][NextAxisKey]_vars

NextRange == NextOn(RangeDatagrams)

\* The controller sends axis values of any size.
SpecRange == Init /\ [][NextRange]_vars

(***************************************************************************)
(* FloatArrayToString on its own.                                          *)
(***************************************************************************)
\* Element values the simulator may hold (thousandths): 0.0, 5.0, 10.25.
ArrayVals == {0, 5000, 10250}

\* The arrays XPLMGetDatavf may return: every length up to MaxArr.
SimArrays == UNION { [1..n -> ArrayVals] : n \in 0..MaxArr }

\* fixed_size: the default -1, or the count the snapshot builder passes
\* (the literal 3, gActiveNumEngines, gActiveNumGear).
FixedSizes == {-1} \cup 0..(MaxArr + 1)

\* conversionFactor: no_convert and radps_2_rpm (thousandths).
Conversions == {Milli, 9549}

\* precision: the values the snapshot builder passes.
Precisions == {2, 3}

InitArray ==
    /\ InitProgram
    /\ simFleet = {AC_Cessna}
    /\ faDataArray \in SimArrays
    /\ faConversion \in Conversions
    /\ faFixedSize \in FixedSizes
    /\ faPrecision \in Precisions
    /\ faResult = <<>>
    /\ pcF = "call"
    /\ GearIdle
    /\ EncIdle

\* The call returns.
F_FloatArrayToString ==
    /\ pcF = "call"
    /\ faResult' = FloatArrayToString(faDataArray, faConversion, faFixedSize,
                                      faPrecision)
    /\ pcF' = "done"
    /\ UNCHANGED << sharedVars, tickVars, simOvd, axisDataMutex, tInvalid,
                    axisWrites, rxVars, fault, gTerminateReceiveThread, logMutex,
                    faDataArray, faConversion, faFixedSize, faPrecision,
                    gearVars, encVars >>

NextArray == F_FloatArrayToString

SpecArray == InitArray /\ [][NextArray]_vars

(***************************************************************************)
(* GetNumGear on its own.                                                  *)
(***************************************************************************)
\* Coordinates a gear node may have (thousandths): 0.0 and 1.5.
NodeVals == {0, 1500}

\* The tables XPLMGetDatavf may fill: the first MaxGearSlots slots hold any
\* of NodeVals, the other slots are zero.
GearTables ==
    { [i \in 1..GearTableSize |-> IF i <= MaxGearSlots THEN t[i] ELSE 0] :
        t \in [1..MaxGearSlots -> NodeVals] }

InitGear ==
    /\ InitProgram
    /\ simFleet = {AC_Cessna}
    /\ FaIdle
    /\ arrayX \in GearTables
    /\ arrayY \in GearTables
    /\ arrayZ \in GearTables
    /\ maxNonZero = 0
    /\ pcG = "call"
    /\ EncIdle

\* The call returns.
G_GetNumGear ==
    /\ pcG = "call"
    /\ maxNonZero' = GetNumGear(arrayX, arrayY, arrayZ)
    /\ pcG' = "done"
    /\ UNCHANGED << sharedVars, tickVars, simOvd, axisDataMutex, tInvalid,
                    axisWrites, rxVars, fault, gTerminateReceiveThread, logMutex,
                    faVars, arrayX, arrayY, arrayZ, encVars >>

NextGear == G_GetNumGear

SpecGear == InitGear /\ [][NextGear]_vars

(***************************************************************************)
(* FormatAndSendTelemetryData on its own.                                  *)
(***************************************************************************)
\* The registry after the SUBSCRIBE datagram d was handled on an empty one.
RegistryAfter(d) ==
    LET c == Cmd(d)
    IN  RegisterDataRef(<<>>, c.sub.path, c.sub.key, c.sub.type,
                        c.sub.precision, c.sub.conversionFactor)

\* The registries of the snapshots under study.
EncRegistries ==
    {<<>>} \cup { RegistryAfter(d) :
                    d \in {D_SubFull, D_SubFooInt, D_SubNumberEngines,
                           D_SubSeparators} }

\* The registry loop of CollectTelemetryData over a whole registry.
RECURSIVE CollectSubs(_, _, _, _)
CollectSubs(snap, reg, readInt, readFloat) ==
    IF reg = <<>> THEN snap
    ELSE CollectSubs(CollectSub(snap, Head(reg), readInt, readFloat),
                     Tail(reg), readInt, readFloat)

\* The snapshot of the first tick with aircraft ac loaded, registry reg, the
\* pause flag p and the override flags f.
BuildSnapshot(ac, reg, ri, rf, p, f) ==
    PutAll(CollectSubs(GetACDetails(EmptyMap, ac), reg, ri, rf),
           BuiltinFields(AircraftName(ac), p, f))

\* The snapshots under study.
Snapshots ==
    { BuildSnapshot(ac, reg, ri, rf, p, [joystick |-> j, pedals |-> j,
                                         collective |-> c]) :
        ac \in {AC_Cessna, AC_Baron, AC_Glider}, reg \in EncRegistries,
        ri \in SimInts, rf \in SimFloats, p \in PausedVals,
        j \in BOOLEAN, c \in BOOLEAN }

InitEncode ==
    /\ InitGlobals
    /\ telemetryData \in Snapshots
    /\ simFleet = {AC_Cessna, AC_Baron, AC_Glider}
    /\ FaIdle
    /\ GearIdle
    /\ dataString = <<>>
    /\ pcE = "call"

\* The call builds dataString and gives it to sendto.
E_FormatAndSendTelemetryData ==
    /\ pcE = "call"
    /\ dataString' = FormatTelemetryData(telemetryData)
    /\ pcE' = "done"
    /\ UNCHANGED << sharedVars, tickVars, simOvd, axisDataMutex, tInvalid,
                    axisWrites, rxVars, fault, gTerminateReceiveThread, logMutex,
                    faVars, gearVars >>

NextEncode == E_FormatAndSendTelemetryData

SpecEncode == InitEncode /\ [][NextEncode]_vars

(***************************************************************************)
(* Properties.                                                             *)
(***************************************************************************)
\* The writes of ws that went to channel chan, in order.
WritesTo(ws, chan) == SelectSeq(ws, LAMBDA w : w.chan = chan)

\* The value an override channel holds after b was written to it.
Ch(b) == << IF b THEN 1 ELSE 0 >>

\* C1: OVERRIDE:joystick=true leaves the joystick group overridden; an
\* AXIS:jx=0.5,jy=-0.2 processed after it leaves the flags as they were and
\* the axis map with jx = 0.5 and jy = -0.2; a frame tick that finds the
\* joystick group overridden writes jx to the roll channel and jy to the
\* pitch channel exactly once each; and no write on an axis channel is ever
\* made by the receive context.
C1_OverrideThenAxis ==
    [][ /\ R_Receive(D_OvJoyTrue) => overrideJoystick'
        /\ pcR = "axis" =>
              UNCHANGED << overrideJoystick, overridePedals, overrideCollective >>
        /\ (R_AxisPair /\ rxBuffer = D_Axis /\ pcR' = "unlock") =>
              /\ axisDataMap'[K_jx] = 500
              /\ axisDataMap'[K_jy] = -200
        /\ (T_SendAxisPosition /\ overrideJoystick) =>
              /\ WritesTo(axisWrites', "roll")
                    = << AxisWrite("tick", "roll", axisDataMap[K_jx]) >>
              /\ WritesTo(axisWrites', "pitch")
                    = << AxisWrite("tick", "pitch", axisDataMap[K_jy]) >>
        /\ \A i \in DOMAIN axisWrites' : axisWrites'[i].ctx = "tick"
      ]_vars

\* C1 witness: the tick after OVERRIDE:joystick=true and AXIS:jx=0.5,jy=-0.2
\* has written 0.5 to roll and -0.2 to pitch, once each.
C1_Witness ==
    /\ pcT = "unlock"
    /\ overrideJoystick
    /\ axisDataMap[K_jx] = 500
    /\ axisDataMap[K_jy] = -200
    /\ WritesTo(axisWrites, "roll") = << AxisWrite("tick", "roll", 500) >>
    /\ WritesTo(axisWrites, "pitch") = << AxisWrite("tick", "pitch", -200) >>

\* The axis-map key whose value goes to an axis channel.
KeyOf(chan) ==
    IF chan = "roll" THEN K_jx
    ELSE IF chan = "pitch" THEN K_jy
    ELSE IF chan = "yaw" THEN K_px
    ELSE K_cy

\* C2: the write-through of a frame tick writes a group's channel(s) if and
\* only if the group's override flag is set, each with the axis map's value;
\* nothing but the write-through of a tick adds a write on an axis channel
\* (an AXIS command never does); and AXIS:jx=0.5,jy=-0.2 updates the axis
\* map whether or not the joystick group is overridden.
C2_WriteThroughIffOverridden ==
    [][ /\ T_SendAxisPosition =>
              /\ overrideJoystick <=> WritesTo(axisWrites', "roll") # <<>>
              /\ overrideJoystick <=> WritesTo(axisWrites', "pitch") # <<>>
              /\ overridePedals <=> WritesTo(axisWrites', "yaw") # <<>>
              /\ overrideCollective <=> WritesTo(axisWrites', "prop") # <<>>
              /\ \A i \in DOMAIN axisWrites' :
                    axisWrites'[i].val = axisDataMap[KeyOf(axisWrites'[i].chan)]
        /\ axisWrites' # axisWrites => T_SendAxisPosition \/ T_Send
        /\ (R_AxisPair /\ rxBuffer = D_Axis /\ pcR' = "unlock") =>
              axisDataMap' = [axisDataMap EXCEPT ![K_jx] = 500, ![K_jy] = -200]
      ]_vars

\* C2 witness: a tick wrote the yaw channel and not the joystick channels,
\* with pedals overridden, joystick not, and jx updated by an AXIS command.
C2_Witness ==
    /\ pcT = "unlock"
    /\ overridePedals
    /\ ~overrideJoystick
    /\ axisDataMap[K_jx] = 500
    /\ WritesTo(axisWrites, "yaw") = << AxisWrite("tick", "yaw", 0) >>
    /\ WritesTo(axisWrites, "roll") = <<>>

\* C3: while the frame tick iterates over the registry, and up to its read
\* of the override flags for the snapshot, it holds the shared mutex; and
\* no registration is made while that iteration is under way.
C3_AccessUnderMutex ==
    /\ pcT = "regloop" => axisDataMutex = "tick"
    /\ ~tInvalid

\* C4: whatever the text of a datagram, the receive loop is not ended by an
\* exception: the process is never terminated by one thrown while a
\* datagram is processed.
C4_ReceiveLoopSurvives == fault # "rx_exception"

\* C5: a pair of an AXIS payload whose value is no number is skipped: the
\* step of the loop that meets it changes nothing in the axis map and the
\* loop goes on to the pairs after it.
C5_UnparsablePairSkipped ==
    [][ (R_AxisPair /\ AxisStep(rxStream, axisDataMap).threw) =>
            /\ axisDataMap' = axisDataMap
            /\ pcR' = "axis"
            /\ fault' = "none"
      ]_vars

\* The override flag and the override channels of every group agree: a
\* group's channels are unwritten with the flag still false, or hold the
\* flag's value.
OverrideChannelsAgree ==
    /\ \/ simOvd.roll = <<>> /\ simOvd.pitch = <<>> /\ ~overrideJoystick
       \/ simOvd.roll = Ch(overrideJoystick) /\ simOvd.pitch = Ch(overrideJoystick)
    /\ \/ simOvd.yaw = <<>> /\ ~overridePedals
       \/ simOvd.yaw = Ch(overridePedals)
    /\ \/ simOvd.prop = <<>> /\ ~overrideCollective
       \/ simOvd.prop = Ch(overrideCollective)

\* C6: an OVERRIDE command for a group with value b sets the group's flag
\* to b and the group's override channel(s) to b (roll and pitch for
\* joystick, yaw for pedals, prop for collective) and leaves the other two
\* groups' flags and channels as they were; in every reachable state each
\* group's flag equals the value last written to its channel(s).
C6_OverrideSetsFlagAndChannels ==
    /\ []OverrideChannelsAgree
    /\ [][ /\ R_Receive(D_OvJoyTrue) =>
                 /\ overrideJoystick' = TRUE
                 /\ simOvd' = [simOvd EXCEPT !.roll = Ch(TRUE), !.pitch = Ch(TRUE)]
                 /\ UNCHANGED << overridePedals, overrideCollective >>
           /\ R_Receive(D_OvJoyFalse) =>
                 /\ overrideJoystick' = FALSE
                 /\ simOvd' = [simOvd EXCEPT !.roll = Ch(FALSE), !.pitch = Ch(FALSE)]
                 /\ UNCHANGED << overridePedals, overrideCollective >>
           /\ R_Receive(D_OvPedTrue) =>
                 /\ overridePedals' = TRUE
                 /\ simOvd' = [simOvd EXCEPT !.yaw = Ch(TRUE)]
                 /\ UNCHANGED << overrideJoystick, overrideCollective >>
           /\ R_Receive(D_OvColTrue) =>
                 /\ overrideCollective' = TRUE
                 /\ simOvd' = [simOvd EXCEPT !.prop = Ch(TRUE)]
                 /\ UNCHANGED << overrideJoystick, overridePedals >>
         ]_vars

\* C6 witness: OVERRIDE:joystick=false has been processed after the
\* joystick and pedals groups were enabled: the joystick flag and channels
\* are back to false, pedals stay enabled, collective was never written.
C6_Witness ==
    /\ pcR = "unlock"
    /\ rxBuffer = D_OvJoyFalse
    /\ ~overrideJoystick
    /\ simOvd.roll = Ch(FALSE)
    /\ simOvd.pitch = Ch(FALSE)
    /\ overridePedals
    /\ simOvd.yaw = Ch(TRUE)
    /\ simOvd.prop = <<>>

\* C7: an OVERRIDE command for the joystick group whose boolean field is
\* malformed (joystick=maybe, joystick=1, or joystick with no '=') leaves
\* an overridden joystick group overridden and the override channels as
\* they were.
C7_MalformedBooleanIsNoOp ==
    [][ \A d \in {D_OvJoyMaybe, D_OvJoyOne, D_OvJoyBare} :
            (R_Receive(d) /\ overrideJoystick) =>
                /\ overrideJoystick'
                /\ simOvd' = simOvd
      ]_vars

\* C8: an OVERRIDE command whose keyword is none of joystick, pedals and
\* collective (rudder=true, rudder with no value, or no keyword at all) leaves the three override flags, the axis map, the registry
\* and every override channel unchanged, whatever its value field.
C8_UnknownKeywordIgnored ==
    [][ \A d \in {D_OvUnknown, D_OvRudderBare, D_OvEmpty} :
            R_Receive(d) => UNCHANGED << sharedVars, simOvd >>
      ]_vars

\* C8 witness: OVERRIDE:rudder=true has been processed with the joystick
\* group overridden and the pedals group untouched.
C8_Witness ==
    /\ pcR = "unlock"
    /\ rxBuffer = D_OvUnknown
    /\ overrideJoystick
    /\ simOvd.roll = Ch(TRUE)
    /\ ~overridePedals
    /\ simOvd.yaw = <<>>

\* C9: a datagram whose data type is none of AXIS, OVERRIDE and SUBSCRIBE
\* (GARBAGE, AXES:jx=0.9, or a buffer-filling run of text without ':')
\* changes neither the axis map, the override flags, the registry nor the
\* override channels, and the receive loop continues after it.
C9_UnknownDatagramIgnored ==
    [][ \A d \in {D_Garbage, D_Axes, D_Full} :
            (pcR = "recv" /\ rxBuffer' = d) =>
                /\ UNCHANGED << sharedVars, simOvd >>
                /\ fault' = "none"
      ]_vars

\* C10: a SUBSCRIBE command that lacks one of the fields dataref, type and
\* tag leaves the registry with the entries it had.
C10_IncompleteSubscribeIsNoOp ==
    [][ \A d \in {D_SubNoTag, D_SubNoType, D_SubNoRef} :
            R_Receive(d) => subscribedDataRefs' = subscribedDataRefs
      ]_vars

\* The registry entry SUBSCRIBE:dataref=sim/x,type=float,tag=Foo,precision=2,
\* conversion=2.0 makes.
FooEntry ==
    [dataRef |-> P_simx, key |-> S_Foo, type |-> S_float, precision |-> 2,
     conversionFactor |-> 2000]

LastWithKey(reg, k) ==
    IF \E i \in 1..Len(reg) : reg[i].key = k
    THEN CHOOSE i \in 1..Len(reg) :
            reg[i].key = k /\ \A j \in (i + 1)..Len(reg) : reg[j].key # k
    ELSE 0

\* C12: when the registry loop of a tick has run over the whole registry,
\* the value in the snapshot under Foo is the one the last registration of
\* Foo yields, whatever the types of the registrations of Foo are (and Foo
\* has no value when the last registration yields none).
C12_LastRegistrationWins ==
    ( /\ pcT = "regloop"
      /\ tIdx > tEnd
      /\ tEnd = Len(subscribedDataRefs)
      /\ LastWithKey(subscribedDataRefs, S_Foo) > 0 ) =>
        \A ri \in SimInts, rf \in SimFloats :
            LET last == subscribedDataRefs[LastWithKey(subscribedDataRefs, S_Foo)]
                exp == CollectSub(EmptyMap, last, ri, rf)
            IN  IF S_Foo \in DOMAIN exp
                THEN /\ S_Foo \in DOMAIN telemetryData
                     /\ telemetryData[S_Foo] = exp[S_Foo]
                ELSE S_Foo \notin DOMAIN telemetryData

\* C13: a registration that succeeds adds an entry that carries the
\* precision and the conversion factor passed (2 and 2.0 for the SUBSCRIBE
\* with precision=2,conversion=2.0); a SUBSCRIBE without the precision and
\* conversion fields adds an entry with precision 3 and conversion factor
\* 1.0; and no entry of the registry is altered afterwards.
C13_EntryCarriesParameters ==
    [][ /\ R_Receive(D_SubFull) =>
              /\ Len(subscribedDataRefs') = Len(subscribedDataRefs) + 1
              /\ subscribedDataRefs'[Len(subscribedDataRefs')].precision = 2
              /\ subscribedDataRefs'[Len(subscribedDataRefs')].conversionFactor = 2000
        /\ R_Receive(D_SubFooInt) =>
              /\ Len(subscribedDataRefs') = Len(subscribedDataRefs) + 1
              /\ subscribedDataRefs'[Len(subscribedDataRefs')].precision = 3
              /\ subscribedDataRefs'[Len(subscribedDataRefs')].conversionFactor = 1000
        /\ \A i \in 1..Len(subscribedDataRefs) :
              /\ i <= Len(subscribedDataRefs')
              /\ subscribedDataRefs'[i] = subscribedDataRefs[i]
      ]_vars

\* C13 witness: the registry holds an entry made with precision 2 and
\* conversion 2.0 and, after it, one made without the two fields.
C13_Witness ==
    /\ pcR = "unlock"
    /\ rxBuffer = D_SubFooInt
    /\ Len(subscribedDataRefs) = 2
    /\ subscribedDataRefs[1] = FooEntry
    /\ subscribedDataRefs[2].precision = 3
    /\ subscribedDataRefs[2].conversionFactor = 1000

\* C14: a SUBSCRIBE whose path the simulator does not resolve leaves the
\* registry exactly as it was, writes the line "Failed to subscribe to
\* DataRef" with the path to the log, and the receive context goes on
\* normally to the end of the call.
C14_UnresolvedPathLeavesRegistry ==
    [][ R_Receive(D_SubBadPath) =>
            /\ subscribedDataRefs' = subscribedDataRefs
            /\ rxLog' = << LogRecord("Failed to subscribe to DataRef", P_simy) >>
            /\ pcR' = "unlock"
            /\ fault' = "none"
      ]_vars

\* C14 witness: the SUBSCRIBE for sim/y has been processed with one entry
\* in the registry; the entry is still the only one and the failure is
\* logged.
C14_Witness ==
    /\ pcR = "unlock"
    /\ rxBuffer = D_SubBadPath
    /\ subscribedDataRefs = << FooEntry >>
    /\ rxLog = << LogRecord("Failed to subscribe to DataRef", P_simy) >>
    /\ fault = "none"

\* C15: when the registry loop of a tick has run, the snapshot holds the key
\* of every registry entry the loop ran over, whatever the type string of
\* the entry; and the snapshot a tick is about to send holds every per-frame
\* key (src, STOP, SimPaused, cOvrd, jOvrd, pOvrd).
C15_SnapshotHasAllKeys ==
    /\ (pcT = "regloop" /\ tIdx > tEnd) =>
          \A i \in 1..tEnd : subscribedDataRefs[i].key \in DOMAIN telemetryData
    /\ pcT = "send" =>
          {S_src, S_STOP, S_SimPaused, S_cOvrd, S_jOvrd, S_pOvrd}
              \subseteq DOMAIN telemetryData

\* C16: every frame tick sends one telemetry datagram, whatever the pause
\* flag read by that tick: the step that ends a tick leaves tickSent set.
C16_EveryTickSends == [][T_Send => tickSent']_vars

\* C17: the frame tick makes no simulator access while it holds
\* axisDataMutex: no axis write is made inside its critical section.
C17_NoSimAccessUnderMutex == axisDataMutex = "tick" => axisWrites = <<>>

\* C18: once XPluginStop has set gTerminateReceiveThread the receive loop
\* ends, and a receive that blocks returns within a finite time even when
\* no datagram arrives, so that the loop condition is evaluated again.
C18_StopEndsReceiveLoop ==
    /\ gTerminateReceiveThread ~> (pcR = "done" \/ fault # "none")
    /\ pcR = "recv" ~> (pcR # "recv" \/ fault # "none")

\* The index of the last element of arr that is not zero (0 when none is).
RECURSIVE LastNonZero(_)
LastNonZero(arr) ==
    IF Len(arr) = 0 THEN 0
    ELSE IF arr[Len(arr)] # 0 THEN Len(arr)
    ELSE LastNonZero(SubSeq(arr, 1, Len(arr) - 1))

\* C19: without an explicit element count, the string returned for an array
\* with a non-zero element is the rendering of the elements up to the last
\* non-zero one, each in full fixed-point notation ([5.0, 0.0, 0.0] at
\* precision 3 gives 5.000).
C19_TrimRemovesOnlyZeroElements ==
    (pcF = "done" /\ faFixedSize = -1 /\ LastNonZero(faDataArray) > 0) =>
        faResult = JoinFloats(faDataArray, LastNonZero(faDataArray),
                              faConversion, faPrecision)

\* The smaller of two numbers.
Min(a, b) == IF a < b THEN a ELSE b

\* C20: with an explicit element count n (0 and counts above the length of
\* the array included) the string returned is the rendering of the first n
\* elements of the array, zero-valued ones kept.
C20_CountRendersFirstN ==
    (pcF = "done" /\ faFixedSize >= 0) =>
        faResult = JoinFloats(faDataArray, Min(faFixedSize, Len(faDataArray)),
                              faConversion, faPrecision)

\* The highest slot of the tables with a non-zero coordinate (0 when every
\* coordinate is zero).
RECURSIVE HighestNonZeroSlot(_, _, _, _)
HighestNonZeroSlot(x, y, z, n) ==
    IF n <= 0 THEN 0
    ELSE IF x[n] # 0 \/ y[n] # 0 \/ z[n] # 0 THEN n
    ELSE HighestNonZeroSlot(x, y, z, n - 1)

\* C21: the gear count is determined by the highest slot of the three
\* tables that holds a non-zero coordinate: tables with the same highest
\* such slot give the same count, and tables with none give 0.
C21_GearCountFromHighestSlot ==
    pcG = "done" =>
        \E h \in {HighestNonZeroSlot(arrayX, arrayY, arrayZ, GearTableSize)} :
            /\ h = 0 => maxNonZero = 0
            /\ \A x \in GearTables, y \in GearTables, z \in GearTables :
                   HighestNonZeroSlot(x, y, z, GearTableSize) = h
                       => GetNumGear(x, y, z) = maxNonZero

\* The per-aircraft keys of the snapshot.
PerAircraftKeys == {S_NumberEngines, S_Vne}

\* GetACDetails ran in the current tick.
ChangedThisTick ==
    \E i \in 1..Len(tickLog) : tickLog[i].msg = "Aircraft Changed to"

\* C22: the identity check of a tick runs GetACDetails exactly when the name
\* read differs from the cached one, and leaves the cached name equal to the
\* name read; in a tick in which the name was unchanged no step of the tick
\* changes the value of a per-aircraft key.
C22_PerAircraftRecomputedOnChange ==
    [][ /\ T_Identity =>
             /\ gPrevAircraftName' = gAircraftName'
             /\ ChangedThisTick' <=> (gAircraftName' # gPrevAircraftName)
        /\ ((T_Identity \/ T_RegBegin \/ T_RegStep \/ T_Builtins \/ T_Send)
              /\ ~ChangedThisTick /\ ~ChangedThisTick') =>
             \A k \in PerAircraftKeys :
                 k \in DOMAIN telemetryData =>
                     /\ k \in DOMAIN telemetryData'
                     /\ telemetryData'[k] = telemetryData[k] ]_vars

\* a is a prefix of b.
IsPrefix(a, b) == Len(a) <= Len(b) /\ SubSeq(b, 1, Len(a)) = a

\* The segment key=value; of an entry.
Segment(snap, k) == k \o <<"=">> \o snap[k] \o <<";">>

\* text is the segments of the entries with the given keys, each once, in
\* some order, and nothing else.
RECURSIVE IsSegmentsOf(_, _, _)
IsSegmentsOf(text, snap, keys) ==
    IF keys = {} THEN text = <<>>
    ELSE \E k \in keys :
            /\ IsPrefix(Segment(snap, k), text)
            /\ IsSegmentsOf(SubSeq(text, Len(Segment(snap, k)) + 1, Len(text)),
                            snap, keys \ {k})

\* C23: the datagram built from a snapshot is the concatenation of one
\* key=value; segment for every entry of the snapshot, each entry once, and
\* no other byte.  (The datagram is a function of the snapshot alone: the
\* map is iterated in the order of its keys.)
C23_DatagramIsSegments ==
    pcE = "done" =>
        IsSegmentsOf(dataString, telemetryData, DOMAIN telemetryData)

\* A snapshot with a subscribed key was encoded.
C23_Witness ==
    /\ pcE = "done"
    /\ S_Foo \in DOMAIN telemetryData
    /\ S_NumberEngines \in DOMAIN telemetryData
    /\ Len(dataString) > 0

\* The characters that separate the fields of a telemetry datagram, and the
\* one that separates the elements of an array value.
SeparatorChars == {"=", ";", "~"}

\* No character of text is a separator.
NoSeparator(text) == \A i \in 1..Len(text) : text[i] \notin SeparatorChars

\* C24: in the snapshot a tick is about to publish, no key and no value
\* holds "=" or ";", and no scalar value holds "~" (every value of the
\* modelled snapshot is a scalar).
C24_NoSeparatorInFields ==
    (pcT = "send" /\ ~simPaused) =>
        \A k \in DOMAIN telemetryData :
            NoSeparator(k) /\ NoSeparator(telemetryData[k])

\* The position of the first c in text (0 when there is none).
RECURSIVE FirstIndexOf(_, _, _)
FirstIndexOf(text, c, i) ==
    IF i > Len(text) THEN 0
    ELSE IF text[i] = c THEN i
    ELSE FirstIndexOf(text, c, i + 1)

\* A telemetry datagram decoded: the text is split on ";", every segment on
\* its first "=", and the pairs are collected in a map.
RECURSIVE DecodeTelemetry(_, _)
DecodeTelemetry(text, acc) ==
    IF Len(text) = 0 THEN acc
    ELSE LET semi == FirstIndexOf(text, ";", 1)
             seg == IF semi = 0 THEN text ELSE SubSeq(text, 1, semi - 1)
             rest == IF semi = 0 THEN <<>> ELSE SubSeq(text, semi + 1, Len(text))
             eq == FirstIndexOf(seg, "=", 1)
             key == IF eq = 0 THEN seg ELSE SubSeq(seg, 1, eq - 1)
             val == IF eq = 0 THEN <<>> ELSE SubSeq(seg, eq + 1, Len(seg))
         IN  DecodeTelemetry(rest, MapPut(acc, key, val))

\* C25: decoding the datagram built from a snapshot gives back the snapshot:
\* the same keys, and the same value for every key.
C25_DecodeRecoversSnapshot ==
    pcE = "done" => DecodeTelemetry(dataString, EmptyMap) = telemetryData

\* C26: the registry holds at most one entry for a key: registering a key
\* again replaces its entry.
C26_OneEntryPerKey ==
    \A i, j \in 1..Len(subscribedDataRefs) :
        subscribedDataRefs[i].key = subscribedDataRefs[j].key => i = j

\* A step of the frame tick.
TickStep ==
    \/ T_SendAxisPosition
    \/ T_Unlock
    \/ T_Identity
    \/ T_RegBegin
    \/ T_RegStep
    \/ T_Builtins
    \/ T_Send

\* C27: no step of a frame tick changes the override flags, the axis map
\* (its values or its keys) or the registry.
C27_TickLeavesSharedState ==
    [][TickStep =>
          /\ axisDataMap' = axisDataMap
          /\ DOMAIN axisDataMap' = DOMAIN axisDataMap
          /\ Flags' = Flags
          /\ subscribedDataRefs' = subscribedDataRefs]_vars

\* A tick wrote the joystick axes through and built its snapshot, with a
\* registry entry in place.
C27_Witness ==
    /\ pcT = "send"
    /\ overrideJoystick
    /\ WritesTo(axisWrites, "roll") # <<>>
    /\ Len(subscribedDataRefs) > 0

\* C28: every value of the axis map, and every value a tick writes to an
\* axis channel, is within the range of its axis: [-1, 1] for jx, jy and
\* px, [0, 1] for cy (values in thousandths).
C28_AxisValuesInRange ==
    /\ \A k \in {K_jx, K_jy, K_px} :
           k \in DOMAIN axisDataMap =>
               (0 - Milli <= axisDataMap[k] /\ axisDataMap[k] <= Milli)
    /\ K_cy \in DOMAIN axisDataMap =>
           (0 <= axisDataMap[K_cy] /\ axisDataMap[K_cy] <= Milli)
    /\ \A i \in 1..Len(axisWrites) :
           /\ 0 - Milli <= axisWrites[i].val
           /\ axisWrites[i].val <= Milli
           /\ axisWrites[i].chan = "prop" => 0 <= axisWrites[i].val

\* The values a tick wrote to an axis channel.
TickVals(chan) ==
    { axisWrites[i].val :
        i \in { n \in 1..Len(axisWrites) :
                  axisWrites[n].chan = chan /\ axisWrites[n].ctx = "tick" } }

\* C29: the datagram AXIS:jx=0.5,jy=-0.2 is the only one that changes jx
\* and jy; a tick writes either both of its values or none of them: roll
\* is 0.5 exactly when pitch is -0.2.
C29_AxisDatagramAtomic ==
    \A r \in TickVals("roll"), p \in TickVals("pitch") :
        (r = 500) <=> (p = 0 - 200)

\* A tick wrote both values of the datagram through.
C29_Witness ==
    /\ pcT = "unlock"
    /\ axisDataMutex = "tick"
    /\ TickVals("roll") = {500}
    /\ TickVals("pitch") = {0 - 200}

\* C30: the two mutexes are taken in one order. The receive context is inside
\* DebugLog only while it holds axisDataMutex, and leaves it before it requests
\* axisDataMutex again; the frame tick is inside DebugLog only in the registry
\* part of the tick, where it neither holds nor requests axisDataMutex. So the
\* holder of either mutex can always take its next step: the two contexts never
\* wait for each other.
C30_LockOrderNoDeadlock ==
    /\ logMutex = "rx" => (axisDataMutex = "rx" /\ pcR = "unlock")
    /\ logMutex = "tick" => (axisDataMutex # "tick" /\ pcT \in {"regbegin", "regloop"})
    /\ fault = "none" =>
          /\ axisDataMutex = "tick" => ENABLED T_Unlock
          /\ axisDataMutex = "rx" => ENABLED (R_AxisPair \/ R_Unlock)
          /\ logMutex = "tick" => ENABLED (T_RegBegin \/ T_RegStep \/ T_Builtins)

\* C30 witness: the receive context is inside DebugLog, holding both mutexes,
\* while the frame tick is about to log an aircraft change.
C30_Witness ==
    /\ logMutex = "rx"
    /\ axisDataMutex = "rx"
    /\ pcT = "identity"
    /\ \E ac \in simFleet : AircraftName(ac) # gPrevAircraftName

\* C31: for every datagram the receive call returns, the index at which
\* ReceiveData writes the terminating zero, the length received, lies inside
\* the receive buffer: it is one of 0..BufSize - 1.
C31_TerminatorInsideBuffer == Len(rxBuffer) \in 0..(BufSize - 1)

\* The text seg occurs in text.
Contains(text, seg) ==
    \E i \in 1..(Len(text) - Len(seg) + 1) :
        SubSeq(text, i, i + Len(seg) - 1) = seg

\* C32: the pause flag a tick reads is the one its snapshot carries, and the
\* tick sends exactly when that flag is 0: a datagram that is sent carries
\* SimPaused=0, and a snapshot with SimPaused=1 is built but not sent.
C32_SentOnlyWhenNotPaused ==
    [][ /\ T_Builtins =>
              (simPaused' <=> telemetryData'[S_SimPaused] = <<"1">>)
        /\ T_Send =>
              /\ tickSent' <=> telemetryData[S_SimPaused] = <<"0">>
              /\ ~tickSent' <=> telemetryData[S_SimPaused] = <<"1">>
              /\ tickSent' =>
                    Contains(FormatTelemetryData(telemetryData),
                             S_SimPaused \o <<"=", "0", ";">>) ]_vars

\* C32 witness: a tick built a snapshot with SimPaused=1 and ended without
\* sending it.
C32_Witness ==
    /\ pcT = "idle"
    /\ ~tickSent
    /\ S_SimPaused \in DOMAIN telemetryData
    /\ telemetryData[S_SimPaused] = <<"1">>

\* The text is what std::to_string gives for a bool or for the pause flag.
IsFlagText(v) == v \in {<<"0">>, <<"1">>}

\* C33: a subscription under the key of a built-in field does not change
\* what is published for that key. The step that writes the built-in fields
\* leaves under src, jOvrd and SimPaused the built-in values, and the snapshot
\* a tick is about to send holds them, never the registry's reading.
C33_BuiltinKeyWins ==
    /\ pcT = "send" =>
          /\ telemetryData[S_src] = S_XPLANE
          /\ IsFlagText(telemetryData[S_jOvrd])
          /\ telemetryData[S_SimPaused] = BoolToStr(simPaused)
          /\ IsFlagText(telemetryData[S_STOP])
    /\ \A i \in 1..Len(subscribedDataRefs) :
          subscribedDataRefs[i].type = S_int =>
              \A ri \in SimInts : ~IsFlagText(IntToStr(ri))

\* C33 witness: the registry holds subscriptions under jOvrd and SimPaused,
\* the joystick is overridden, and the snapshot about to be sent holds the
\* built-in values of both keys.
C33_Witness ==
    /\ pcT = "send"
    /\ \E i, j \in 1..Len(subscribedDataRefs) :
          /\ subscribedDataRefs[i].key = S_jOvrd
          /\ subscribedDataRefs[j].key = S_SimPaused
    /\ telemetryData[S_jOvrd] = <<"1">>
    /\ telemetryData[S_SimPaused] = <<"0">>

\* C34: after any sequence of AXIS commands the keys of the axis map are
\* exactly jx, jy, px and cy: a pair naming another key adds nothing.
C34_AxisKeySetFixed == DOMAIN axisDataMap = {K_jx, K_jy, K_px, K_cy}

=============================================================================
